---- MODULE Spec2Model ----
(***************************************************************************)
(* The client-side entity cache of the stream overlay client: the Entity   *)
(* and EntityCollection classes, the merge/diff utilities they rest on,    *)
(* and the request/response and push-notification handlers that keep the   *)
(* cache in step with the game server.                                     *)
(*                                                                         *)
(* JavaScript values are tagged with the name getType() gives them.  An    *)
(* object is a function from its own keys to values, an array is a         *)
(* sequence of values.  Object identity is modelled where the code relies  *)
(* on it: an Entity instance is a reference into inst, and the record an   *)
(* EntityCollection keeps in _source is the very data object of an         *)
(* instance, so _source is a sequence of instance references.              *)
(***************************************************************************)
EXTENDS Integers, Sequences, FiniteSets, TLC

(***************************************************************************)
(* The state: one entity class with its collection, the requests in        *)
(* flight, and a record of the step taken last                             *)
(***************************************************************************)
VARIABLES
  ctype,    \* the entity class whose collection is modelled
  inst,     \* reference -> Entity instance [data, items, view]
  store,    \* the collection as a Map: << [id, ref], ... >> in insertion order
  source,   \* the collection's _source: references whose data it holds
  pending,  \* the requests emitted and not yet answered
  last      \* the step taken last

vars == << ctype, inst, store, source, pending, last >>

(***************************************************************************)
(* Values                                                                  *)
(***************************************************************************)
Num(n) == [t |-> "number", v |-> n]
Str(s) == [t |-> "string", v |-> s]
Bool(b) == [t |-> "boolean", v |-> b]
Null == [t |-> "null", v |-> 0]
Undefined == [t |-> "undefined", v |-> 0]
Obj(f) == [t |-> "Object", v |-> f]
Arr(s) == [t |-> "Array", v |-> s]

EmptyObj == [k \in {} |-> Undefined]

\* getType(token): the tag of the value
getType(x) == x.t

\* JavaScript truthiness of a value, as used by !x, x && y, x || y
Truthy(x) ==
  CASE x.t = "undefined" -> FALSE
    [] x.t = "null" -> FALSE
    [] x.t = "boolean" -> x.v
    [] x.t = "number" -> x.v # 0
    [] x.t = "string" -> x.v # ""
    [] OTHER -> TRUE

Put(f, k, x) == [j \in DOMAIN f \cup {k} |-> IF j = k THEN x ELSE f[j]]
Del(f, k) == [j \in DOMAIN f \ {k} |-> f[j]]
\* object[key]: undefined when the key is not an own key
Get(f, k) == IF k \in DOMAIN f THEN f[k] ELSE Undefined

\* Every key the model's objects use, in the order Object.keys lists them
AllKeys ==
  << "_id", "name", "img", "foo", "active", "thumb", "permission", "token", "items",
     "tokens", "walls", "default", "u1", "u2", "token.name", "-=foo" >>

\* Object.keys(f) / Object.entries(f)
Keys(f) == SelectSeq(AllKeys, LAMBDA k : k \in DOMAIN f)

\* key.split("."): the path segments of a key
Split(k) ==
  CASE k = "token.name" -> << "token", "name" >>
    [] k = "token.foo" -> << "token", "foo" >>
    [] k = "foo.name" -> << "foo", "name" >>
    [] k = "token.name.foo" -> << "token", "name", "foo" >>
    [] OTHER -> << k >>
\* /\./.test(k)
HasDot(k) == Len(Split(k)) > 1
\* k.startsWith("-=") and k.slice(2)
StartsWithDel(k) == k = "-=foo"
Slice2(k) == IF k = "-=foo" THEN "foo" ELSE k

(***************************************************************************)
(* utils: isObjectEmpty, duplicate, setProperty, expandObject              *)
(***************************************************************************)
\* isObjectEmpty(obj), for obj a plain object (it throws for anything else)
isObjectEmpty(f) == DOMAIN f = {}

RECURSIVE duplicate(_)
RECURSIVE duplicateSeq(_)
RECURSIVE duplicateKeys(_, _)
\* JSON.parse(JSON.stringify(x)): keys holding undefined are dropped, an
\* undefined array element becomes null
duplicate(x) ==
  CASE x.t = "Object" -> Obj(duplicateKeys(x.v, Keys(x.v)))
    [] x.t = "Array" -> Arr(duplicateSeq(x.v))
    [] OTHER -> x
duplicateSeq(s) ==
  IF s = << >> THEN << >>
  ELSE << IF Head(s).t = "undefined" THEN Null ELSE duplicate(Head(s)) >>
         \o duplicateSeq(Tail(s))
duplicateKeys(f, ks) ==
  IF ks = << >> THEN EmptyObj
  ELSE LET rest == duplicateKeys(f, Tail(ks))
           k == Head(ks)
       IN IF f[k].t = "undefined" THEN rest ELSE Put(rest, k, duplicate(f[k]))

RECURSIVE setPath(_, _, _)
\* setProperty(object, key, value) for the path Split(key): every missing
\* intermediate key is created as {} and the last segment is assigned
setPath(f, path, x) ==
  IF Len(path) = 1 THEN Put(f, path[1], x)
  ELSE LET i == path[1]
           inner == IF i \in DOMAIN f /\ f[i].t = "Object" THEN f[i].v ELSE EmptyObj
       IN Put(f, i, Obj(setPath(inner, Tail(path), x)))
setProperty(f, k, x) == setPath(f, Split(k), x)

RECURSIVE expandObject(_)
RECURSIVE expandKeys(_, _, _)
\* expandObject(obj): a new object with every dotted key turned into nested
\* objects, nested plain objects expanded first
expandObject(f) == expandKeys(f, Keys(f), EmptyObj)
expandKeys(f, ks, expanded) ==
  IF ks = << >> THEN expanded
  ELSE LET k == Head(ks)
           x == IF f[k].t = "Object" THEN Obj(expandObject(f[k].v)) ELSE f[k]
       IN expandKeys(f, Tail(ks), setProperty(expanded, k, x))

RECURSIVE hasPath(_, _)
\* the loop of hasProperty over the segments of the key, target being the
\* value reached so far: [threw, value].  A falsy target is replaced by {};
\* `p in target` throws a TypeError when target is a number, a string or a
\* boolean, and is false for a name that is no index of an array
hasPath(target, path) ==
  IF path = << >> THEN [threw |-> FALSE, value |-> TRUE]
  ELSE IF ~Truthy(target) THEN [threw |-> FALSE, value |-> FALSE]
  ELSE IF target.t \in {"number", "string", "boolean"}
  THEN [threw |-> TRUE, value |-> FALSE]
  ELSE IF target.t = "Object" /\ Head(path) \in DOMAIN target.v
  THEN hasPath(target.v[Head(path)], Tail(path))
  ELSE [threw |-> FALSE, value |-> FALSE]

\* hasProperty(object, key)
hasProperty(f, key) ==
  IF key = "" THEN [threw |-> FALSE, value |-> FALSE] ELSE hasPath(Obj(f), Split(key))

(***************************************************************************)
(* utils: mergeObject and diffObject                                       *)
(***************************************************************************)
\* the default options of mergeObject
MergeDefaults ==
  [insertKeys |-> TRUE, insertValues |-> TRUE, overwrite |-> TRUE,
   inplace |-> TRUE, enforceTypes |-> FALSE]

RECURSIVE mergeObject(_, _, _, _)
RECURSIVE mergeEntries(_, _, _, _, _)
\* a merge that takes overwrite: false for overwrite: true
mergeObjectOverwriting(original, other, opts, d) ==
  mergeEntries(IF d = 0 /\ \E k \in DOMAIN original : HasDot(k)
               THEN expandObject(original) ELSE original,
               IF d = 0 /\ \E k \in DOMAIN other : HasDot(k)
               THEN expandObject(other) ELSE other,
               Keys(IF d = 0 /\ \E k \in DOMAIN other : HasDot(k)
                    THEN expandObject(other) ELSE other),
               [opts EXCEPT !.overwrite = TRUE], d + 1)

\* a merge that assigns every entry of other, as Object.assign does
mergeObjectAssign(original, other, opts, d) ==
  [threw |-> FALSE, obj |-> other @@ original]

\* mergeObject(original, other, options, _d) on plain objects: the object the
\* loop has written into (the one the call returns) and whether it threw
mergeObject(original, other, opts, d) ==
  LET copied == IF ~opts.inplace /\ d = 0 THEN duplicate(Obj(original)).v ELSE original
      orig == IF d = 0 /\ \E k \in DOMAIN copied : HasDot(k)
              THEN expandObject(copied) ELSE copied
      oth == IF d = 0 /\ \E k \in DOMAIN other : HasDot(k)
             THEN expandObject(other) ELSE other
  IN mergeEntries(orig, oth, Keys(oth), opts, d + 1)

\* the body of the loop over Object.entries(other), for the entries ks
mergeEntries(original, other, ks, opts, depth) ==
  IF ks = << >> THEN [threw |-> FALSE, obj |-> original]
  ELSE
    LET k0 == Head(ks)
        x1 == other[k0]
        tv == getType(x1)
        k == IF StartsWithDel(k0) THEN Slice2(k0) ELSE k0
        toDelete == StartsWithDel(k0) /\ tv = "null"
        ensure == k \notin DOMAIN original /\ tv = "Object"
        orig == IF ensure THEN Put(original, k, Obj(EmptyObj)) ELSE original
        has == k \in DOMAIN orig
        x == Get(orig, k)
        tx == getType(x)
        canInsert == (depth = 1 /\ opts.insertKeys) \/ (depth > 1 /\ opts.insertValues)
        step ==
          IF has THEN
            IF tv = "Object" /\ tx = "Object" THEN
              LET r == mergeObject(x.v, x1.v, [opts EXCEPT !.inplace = TRUE], depth)
              IN [threw |-> r.threw, obj |-> Put(orig, k, Obj(r.obj))]
            ELSE IF toDelete THEN [threw |-> FALSE, obj |-> Del(orig, k)]
            ELSE IF opts.overwrite THEN
              IF tv # tx /\ opts.enforceTypes
              THEN [threw |-> TRUE, obj |-> orig]
              ELSE [threw |-> FALSE, obj |-> Put(orig, k, x1)]
            ELSE IF tx = "undefined" /\ opts.insertValues
              THEN [threw |-> FALSE, obj |-> Put(orig, k, x1)]
            ELSE [threw |-> FALSE, obj |-> orig]
          ELSE IF ~toDelete /\ canInsert
            THEN [threw |-> FALSE, obj |-> Put(orig, k, x1)]
          ELSE [threw |-> FALSE, obj |-> orig]
    IN IF step.threw THEN step
       ELSE mergeEntries(step.obj, other, Tail(ks), opts, depth)

\* a merge that adds a number to the number the original holds under foo
mergeInPlaceAdding(original, other) ==
  IF Get(original, "foo").t = "number" /\ Get(other, "foo").t = "number"
  THEN Put(original, "foo", Num(original["foo"].v + other["foo"].v))
  ELSE original @@ other

\* what the object passed as original holds once mergeObject(original, other)
\* has returned with the default options: the loop writes into it unless it
\* had a dotted key, in which case the writes went to its expanded copy
mergeInPlace(original, other) ==
  IF \E k \in DOMAIN original : HasDot(k) THEN original
  ELSE mergeObject(original, other, MergeDefaults, 0).obj

\* whether mergeObject(original, other, opts) returns the object passed as
\* original: not a copy made for inplace: false, and not the expanded copy
\* made when a key of original is dotted
returnsOriginal(original, opts) ==
  opts.inplace /\ ~\E k \in DOMAIN original : HasDot(k)

\* what the object passed as original holds once mergeObject(original,
\* other, opts) has returned: the loop wrote into it when it is the object
\* returned, and into a copy when not
originalAfter(original, other, opts) ==
  IF returnsOriginal(original, opts) THEN mergeObject(original, other, opts, 0).obj
  ELSE original

RECURSIVE diffObject(_, _)
RECURSIVE diffKeys(_, _, _)
\* _difference(v0, v1) inside diffObject: [threw, isDifferent, difference].
\* Arrays are compared with v0.equals(v1); no Array.prototype.equals is
\* defined anywhere in the sources (only findSplice is), so the call throws.
difference(v0, v1) ==
  LET t0 == getType(v0)
      t1 == getType(v1)
  IN IF t0 # t1 THEN [threw |-> FALSE, isDifferent |-> TRUE, difference |-> v1]
     ELSE IF t0 = "Array"
       THEN [threw |-> TRUE, isDifferent |-> FALSE, difference |-> v1]
     ELSE IF t0 = "Object" THEN
       IF isObjectEmpty(v0.v) # isObjectEmpty(v1.v)
       THEN [threw |-> FALSE, isDifferent |-> TRUE, difference |-> v1]
       ELSE LET dd == diffObject(v0.v, v1.v)
            IN [threw |-> dd.threw, isDifferent |-> ~isObjectEmpty(dd.obj),
                difference |-> Obj(dd.obj)]
     ELSE [threw |-> FALSE, isDifferent |-> v0 # v1, difference |-> v1]

\* diffObject(original, other): the keys of other whose value differs
diffObject(original, other) == diffKeys(original, other, Keys(other))
diffKeys(original, other, ks) ==
  IF ks = << >> THEN [threw |-> FALSE, obj |-> EmptyObj]
  ELSE LET key == ks[Len(ks)]
           front == diffKeys(original, other, SubSeq(ks, 1, Len(ks) - 1))
           dd == difference(Get(original, key), other[key])
       IN IF front.threw THEN front
          ELSE IF dd.threw THEN [threw |-> TRUE, obj |-> front.obj]
          ELSE IF dd.isDifferent
            THEN [threw |-> FALSE, obj |-> Put(front.obj, key, dd.difference)]
          ELSE front

(***************************************************************************)
(* Entity classes                                                          *)
(***************************************************************************)
\* the entity classes of the model (window.CONFIG[type].entityClass)
Types == {"Actor", "Scene"}
\* the same with Combat, of which only the top-level handlers are modelled
Classes == Types \cup {"Combat"}

\* DEFAULT_TOKEN: the default artwork of an image left empty
DEFAULT_TOKEN == Str("icons/svg/mystery-man.svg")

\* config.embeddedEntities: embedded type name -> name of the raw array
embeddedEntities(ty) ==
  IF ty = "Actor" THEN [OwnedItem |-> "items"]
  ELSE IF ty = "Combat" THEN [Combatant |-> "combatants"]
  ELSE [Token |-> "tokens", Wall |-> "walls"]

\* one entry of the log of hook calls a handler makes
Ev(h, id) == [h |-> h, id |-> id]

\* Actor#items before prepareEmbeddedEntities has run / after the constructor
ItemsNull == [null |-> TRUE, keys |-> << >>]

\* Entity#prepareData of the base class, on the data object f of a cls
EntityPrepareData(f, cls) ==
  IF "name" \in DOMAIN f /\ ~Truthy(f["name"])
  THEN Put(f, "name", Str("New " \o cls)) ELSE f

\* Item#prepareData and Actor#prepareData: the base pass, then the image
ImgPrepareData(f, cls) ==
  LET g == EntityPrepareData(f, cls)
  IN IF ~Truthy(Get(g, "img")) THEN Put(g, "img", DEFAULT_TOKEN) ELSE g

\* prepareData of class ty
prepareData(f, ty) ==
  IF ty = "Actor" THEN ImgPrepareData(f, "Actor") ELSE EntityPrepareData(f, ty)

RECURSIVE ItemIds(_)
\* the keys Actor#prepareEmbeddedEntities sets in its Collection, in
\* insertion order (a repeated id keeps its first position)
ItemIds(s) ==
  IF s = << >> THEN << >>
  ELSE LET front == ItemIds(SubSeq(s, 1, Len(s) - 1))
           id == Get(s[Len(s)].v, "_id").v
       IN IF \E i \in 1..Len(front) : front[i] = id THEN front
          ELSE Append(front, id)

\* Actor#prepareEmbeddedEntities on an instance e: every raw item gets an
\* Item (a kept one is re-pointed to the raw record, a new one is made by
\* Item.createOwned) whose prepareData runs on the raw record.  It throws
\* when data.items is not iterable.
ActorPrepareEmbedded(e) ==
  LET raw == Get(e.data, "items")
  IN IF raw.t # "Array" THEN [threw |-> TRUE, e |-> e]
     ELSE [threw |-> FALSE,
           e |-> [e EXCEPT
                    !.data = Put(e.data, "items",
                               Arr([i \in 1..Len(raw.v) |->
                                      Obj(ImgPrepareData(raw.v[i].v, "Item"))])),
                    !.items = [null |-> FALSE, keys |-> ItemIds(raw.v)]]]

\* Entity#initialize after its first prepareData: emb is what
\* prepareEmbeddedEntities did to e0, the second prepareData follows, and
\* what either throws is caught
initializeEmbedded(e0, emb, ty) ==
  IF emb.threw THEN e0 ELSE [emb.e EXCEPT !.data = prepareData(@, ty)]

\* Combat#setupTurns: it maps and sorts the combatants and then calls
\* Math.clamped, which nothing defines, so it throws; the records of the
\* model have no combatants, so nothing is written before
setupTurns(e) == [threw |-> TRUE, e |-> e]

\* Entity#initialize on the instance e0 whose data was prepared once
initialize(e0, ty) ==
  initializeEmbedded(e0,
                     IF ty = "Actor" THEN ActorPrepareEmbedded(e0)
                     ELSE IF ty = "Combat" THEN setupTurns(e0)
                     ELSE [threw |-> FALSE, e |-> e0],
                     ty)

\* what the constructors of the subclasses do after super(...): Actor sets
\* items to null, Scene sets _view from data.active, Combat sets turns to
\* null and its round tracking
constructed(e, ty) ==
  IF ty = "Actor" THEN [e EXCEPT !.items = ItemsNull]
  ELSE IF ty = "Combat" THEN e
  ELSE [e EXCEPT !.view = Get(e.data, "active")]

\* new cls(data): the constructor of class ty; apps is the object of the
\* Application instances attached to the entity, by id in insertion order
Construct(data, ty) ==
  constructed(initialize([data |-> prepareData(data, ty), items |-> ItemsNull,
                          view |-> Undefined, apps |-> << >>], ty), ty)

(***************************************************************************)
(* EntityCollection: the keyed store (a Map, in insertion order) and the   *)
(* raw _source array.  A world w is [inst, store, source].                 *)
(***************************************************************************)
\* the id of an Entity instance or of a raw record: data._id
IdOf(f) == Get(f, "_id").v

\* Entity#render(force, context) of the instance e: the render of every
\* attached Application
render(e) ==
  << Ev("render", IdOf(e.data)) >>
    \o [k \in 1..Len(e.apps) |-> Ev("app.render", e.apps[k])]

\* Map#has, Collection#get (0 stands for null), Map#set, Map#delete, keys()
StoreHas(st, id) == \E i \in 1..Len(st) : st[i].id = id
\* the ids the store holds, as a set
StoreKeySet(st) == {st[i].id : i \in 1..Len(st)}

\* Map#has for a key of any type: only a string is ever a key
Holds(st, key) == key.t = "string" /\ StoreHas(st, key.v)
StoreGet(st, id) ==
  IF StoreHas(st, id) THEN st[CHOOSE i \in 1..Len(st) : st[i].id = id].ref ELSE 0
StoreSet(st, id, ref) ==
  IF StoreHas(st, id)
  THEN [i \in 1..Len(st) |-> IF st[i].id = id THEN [id |-> id, ref |-> ref] ELSE st[i]]
  ELSE Append(st, [id |-> id, ref |-> ref])
StoreDelete(st, id) == SelectSeq(st, LAMBDA en : en.id # id)
StoreKeys(st) == [i \in 1..Len(st) |-> Str(st[i].id)]

\* Array.prototype.findSplice with the test e => e._id === id, on _source
findSplice(w, id) ==
  LET hits == {i \in 1..Len(w.source) : IdOf(w.inst[w.source[i]].data) = id}
  IN IF hits = {} THEN w.source
     ELSE LET idx == CHOOSE i \in hits : \A j \in hits : i <= j
          IN SubSeq(w.source, 1, idx - 1) \o SubSeq(w.source, idx + 1, Len(w.source))

\* the reference a newly constructed instance gets: the first one free
NewRef(w) == CHOOSE r \in 1..(Cardinality(DOMAIN w.inst) + 1) : r \notin DOMAIN w.inst

\* EntityCollection#insert(entity) of a newly constructed instance e
insert(w, e) ==
  [w EXCEPT !.inst = (NewRef(w) :> e) @@ w.inst,
            !.source = Append(w.source, NewRef(w)),
            !.store = StoreSet(w.store, IdOf(e.data), NewRef(w))]

\* a removal that forgets the keyed store
removeFromSource(w, id) == [w EXCEPT !.source = findSplice(w, id)]

\* EntityCollection#remove(id)
remove(w, id) ==
  [w EXCEPT !.source = findSplice(w, id), !.store = StoreDelete(w.store, id)]

\* an instance that neither the store nor _source refers to any more is
\* dropped from the model
Collect(w) ==
  LET live == {w.store[i].ref : i \in 1..Len(w.store)}
                \cup {w.source[i] : i \in 1..Len(w.source)}
  IN [w EXCEPT !.inst = [r \in live |-> w.inst[r]]]

\* the running value of a handler: the world, the log, and whether it threw
Acc(w, trace, threw) == [w |-> w, trace |-> trace, threw |-> threw]

(***************************************************************************)
(* Entity: the handlers of top-level create, update and delete             *)
(***************************************************************************)
\* the handler goes on with what a hook u did after a
followUp(a, u) == Acc(u.w, a.trace \o u.trace, u.threw)

\* a handler that renders the collection whatever options.render is
renderCollectionAlways(a, options) ==
  IF a.threw THEN a ELSE Acc(a.w, Append(a.trace, Ev("collection.render", "")), FALSE)

\* the closing "if (options.render !== false) this.collection.render(...)" of
\* a handler that got that far
renderCollection(a, options) ==
  IF a.threw \/ ~options.render THEN a
  ELSE Acc(a.w, Append(a.trace, Ev("collection.render", "")), FALSE)

\* a Scene#_onActivate that marks its own scene and leaves the others alone
onActivateSelf(w, id, active) ==
  IF ~Truthy(active) THEN w
  ELSE [w EXCEPT !.inst =
          [r \in DOMAIN w.inst |->
             IF IdOf(w.inst[r].data) = id /\ StoreGet(w.store, id) = r
             THEN [w.inst[r] EXCEPT !.data = Put(@, "active", Bool(TRUE)),
                                    !.view = Bool(TRUE)]
             ELSE w.inst[r]]]

\* Scene#_onActivate(active) of the scene with id id, with Scene#view
onActivate(w, id, active) ==
  IF ~Truthy(active) THEN w
  ELSE [w EXCEPT !.inst =
          [r \in DOMAIN w.inst |->
             IF \E i \in 1..Len(w.store) : w.store[i].ref = r
             THEN [w.inst[r] EXCEPT
                     !.data = Put(@, "active", Bool(IdOf(@) = id)),
                     !.view = Bool(IdOf(w.inst[r].data) = id)]
             ELSE w.inst[r]]]

\* entity._onCreate(data, options, userId) of the instance just inserted
\* under id: empty in the base class, Scene activates a scene created active
onCreate(w, id, ty) ==
  IF ty = "Scene" /\ Get(w.inst[StoreGet(w.store, id)].data, "active") = Bool(TRUE)
  THEN onActivate(w, id, Bool(TRUE)) ELSE w

\* a create handler that ignores options.temporary
createOneKept(a, e, ty, options) ==
  Acc(onCreate(insert(a.w, e), IdOf(e.data), ty),
      a.trace \o << Ev("construct", IdOf(e.data)), Ev("_onCreate", IdOf(e.data)) >>,
      FALSE)

\* the result.map callback of Entity._handleCreate for the instance e the
\* constructor made of one record
createOne(a, e, ty, options) ==
  IF options.temporary
  THEN Acc(a.w, Append(a.trace, Ev("construct", IdOf(e.data))), FALSE)
  ELSE Acc(onCreate(insert(a.w, e), IdOf(e.data), ty),
           a.trace \o << Ev("construct", IdOf(e.data)), Ev("_onCreate", IdOf(e.data)) >>,
           FALSE)

RECURSIVE createEach(_, _, _, _, _)
\* result.map of Entity._handleCreate over result[i..]
createEach(a, ty, options, result, i) ==
  IF i > Len(result) THEN a
  ELSE createEach(createOne(a, Construct(result[i].v, ty), ty, options),
                  ty, options, result, i + 1)

\* Entity._handleCreate({request, result}) for the class ty
handleCreate(w, ty, request, result) ==
  renderCollection(createEach(Acc(w, << >>, FALSE), ty, request.options, result, 1),
                   request.options)

\* Actor#_onUpdate(data): emb is what prepareEmbeddedEntities did when the
\* update has an items key; prepareData follows, and reading token.img or
\* token.name throws when the data has no token and the update carries img
\* or name
ActorOnUpdate(w, ref, data, emb) ==
  IF emb.threw THEN Acc(w, << Ev("_onUpdate", IdOf(w.inst[ref].data)) >>, TRUE)
  ELSE Acc([w EXCEPT !.inst[ref] = [emb.e EXCEPT !.data = prepareData(@, "Actor")]],
           << Ev("_onUpdate", IdOf(w.inst[ref].data)),
              Ev("prepareData", IdOf(w.inst[ref].data)) >>,
           ~Truthy(Get(emb.e.data, "token"))
             /\ (Truthy(Get(data, "img")) \/ Truthy(Get(data, "name"))))

\* Date.now(), the last reading the clock gives within a run of the model,
\* and the paths of the thumbnails
Now == last.now
MaxClock == 2
Thumbs == {"old.png", "new.png"}

\* thumb.split("?")[0] + `?${Date.now()}` at the clock reading n
Stamp(thumb, n) == thumb \o "?" \o ToString(n)
Stamps == {Stamp(b, n) : b \in Thumbs, n \in 0..MaxClock}
Busted(thumb, n) ==
  IF thumb \in Stamps
  THEN Stamp(CHOOSE b \in Thumbs : \E m \in 0..MaxClock : thumb = Stamp(b, m), n)
  ELSE Stamp(thumb, n)

\* "if (changed.has("thumb") && this.data.thumb) this.data.thumb = ...", the
\* cache busting of Scene#_onUpdate at the clock reading n: split is no
\* method of a thumb that is truthy and no string
bustThumb(a, ref, data, n) ==
  IF "thumb" \notin DOMAIN data \/ ~Truthy(Get(a.w.inst[ref].data, "thumb")) THEN a
  ELSE IF a.w.inst[ref].data["thumb"].t # "string" THEN Acc(a.w, a.trace, TRUE)
  ELSE Acc([a.w EXCEPT !.inst[ref].data["thumb"] = Str(Busted(@.v, n))],
           a.trace, FALSE)

\* Entity#_onUpdate(data) of the base class, then what Scene#_onUpdate adds:
\* the activation when the update has an active key, and the cache busting
\* of a thumbnail the update has changed
SceneOnUpdate(w, ref, data) ==
  bustThumb(
    Acc(IF "active" \in DOMAIN data
        THEN onActivate([w EXCEPT !.inst[ref].data = prepareData(@, "Scene")],
                        IdOf(w.inst[ref].data), data["active"])
        ELSE [w EXCEPT !.inst[ref].data = prepareData(@, "Scene")],
        << Ev("_onUpdate", IdOf(w.inst[ref].data)),
           Ev("prepareData", IdOf(w.inst[ref].data)) >> \o render(w.inst[ref]),
        FALSE),
    ref, data, Now)

\* Combat#_onUpdate(data): Entity#_onUpdate, then setupTurns, which throws
CombatOnUpdate(w, ref, data) ==
  Acc([w EXCEPT !.inst[ref].data = prepareData(@, "Combat")],
      << Ev("_onUpdate", IdOf(w.inst[ref].data)),
         Ev("prepareData", IdOf(w.inst[ref].data)) >> \o render(w.inst[ref]),
      setupTurns(w.inst[ref]).threw)

\* entity._onUpdate(data, options, userId) of class ty on the instance ref
onUpdate(w, ref, data, ty) ==
  IF ty = "Actor"
  THEN ActorOnUpdate(w, ref, data,
                     IF "items" \in DOMAIN data THEN ActorPrepareEmbedded(w.inst[ref])
                     ELSE [threw |-> FALSE, e |-> w.inst[ref]])
  ELSE IF ty = "Combat" THEN CombatOnUpdate(w, ref, data)
  ELSE SceneOnUpdate(w, ref, data)

\* the permission map left as the deep merge made it
keepMergedPermission(merged, data) == merged

\* "if (data.permission && entity.data.permission) entity.data.permission =
\* data.permission" on the merged data
assignPermission(merged, data) ==
  IF Truthy(Get(data, "permission")) /\ Truthy(Get(merged, "permission"))
  THEN Put(merged, "permission", data["permission"]) ELSE merged

\* an update that builds a new instance from the merged data and puts it in
\* the store in place of the old one
updateOneRebuilt(a, ref, data, ty) ==
  IF ref = 0 THEN Acc(a.w, a.trace, TRUE)
  ELSE Acc([a.w EXCEPT
              !.inst = (NewRef(a.w) :> [a.w.inst[ref] EXCEPT
                                          !.data = mergeInPlace(@, data)]) @@ @,
              !.store = StoreSet(@, IdOf(data), NewRef(a.w))],
           a.trace, FALSE)

\* Entity._handleUpdate with a get that is not strict: a record whose id
\* the collection does not hold is skipped
updateOneLenient(a, ref, data, ty) ==
  IF ref = 0 THEN a
  ELSE followUp(a, onUpdate([a.w EXCEPT !.inst[ref].data =
                               assignPermission(mergeInPlace(@, data), data)],
                            ref, data, ty))

\* Entity._handleUpdate merging with overwrite: false, so that a field the
\* entity already holds keeps its value
updateOneKeeping(a, ref, data, ty) ==
  IF ref = 0 THEN Acc(a.w, a.trace, TRUE)
  ELSE followUp(a, onUpdate([a.w EXCEPT !.inst[ref].data =
                               @ @@ data],
                            ref, data, ty))

\* the result.map callback of Entity._handleUpdate for one record data; ref
\* is what collection.get(data._id, {strict: true}) finds, 0 when it throws
updateOne(a, ref, data, ty) ==
  IF ref = 0 THEN Acc(a.w, a.trace, TRUE)
  ELSE followUp(a, onUpdate([a.w EXCEPT !.inst[ref].data =
                               assignPermission(mergeInPlace(@, data), data)],
                            ref, data, ty))

RECURSIVE updateEach(_, _, _, _)
\* result.map of Entity._handleUpdate over result[i..]
updateEach(a, ty, result, i) ==
  IF i > Len(result) \/ a.threw THEN a
  ELSE updateEach(updateOne(a,
                            IF "_id" \in DOMAIN result[i].v
                            THEN StoreGet(a.w.store, IdOf(result[i].v)) ELSE 0,
                            result[i].v, ty),
                  ty, result, i + 1)

\* Entity._handleUpdate({request, result}) for the class ty
handleUpdate(w, ty, request, result) ==
  renderCollection(updateEach(Acc(w, << >>, FALSE), ty, result, 1), request.options)

\* entity._onDelete(options, userId) of the instance e of class ty: the
\* base class closes every attached Application, Scene calls the base class,
\* Combat overrides it with an empty body
onDelete(e, ty) ==
  << Ev("_onDelete", IdOf(e.data)) >>
    \o (IF ty = "Combat" THEN << >>
        ELSE [k \in 1..Len(e.apps) |-> Ev("app.close", e.apps[k])])

RECURSIVE deleteEach(_, _, _, _)
\* result.map of Entity._handleDelete over ids[i..]: the strict get, the
\* removal, and entity._onDelete
deleteEach(a, ty, ids, i) ==
  IF i > Len(ids) \/ a.threw THEN a
  ELSE IF ~StoreHas(a.w.store, ids[i].v) THEN Acc(a.w, a.trace, TRUE)
  ELSE deleteEach(Acc(remove(a.w, ids[i].v),
                      a.trace \o onDelete(a.w.inst[StoreGet(a.w.store, ids[i].v)], ty),
                      FALSE),
                  ty, ids, i + 1)

\* Entity._handleDelete({request, result}); result is an array of ids
handleDelete(w, ty, request, result) ==
  renderCollection(deleteEach(Acc(w, << >>, FALSE), ty,
                              IF request.options.deleteAll THEN StoreKeys(w.store)
                              ELSE result,
                              1),
                   request.options)

(***************************************************************************)
(* Entity: the handlers of embedded create, update and delete              *)
(***************************************************************************)
\* Entity#getEmbeddedCollection(embeddedName) of an instance e of class ty:
\* it throws for a name the class does not embed, else it is data[name],
\* which is undefined when the data has no such array
getEmbeddedCollection(e, ty, embeddedName) ==
  IF embeddedName \notin DOMAIN embeddedEntities(ty)
  THEN [threw |-> TRUE, name |-> "", collection |-> Undefined]
  ELSE [threw |-> FALSE, name |-> embeddedEntities(ty)[embeddedName],
        collection |-> Get(e.data, embeddedEntities(ty)[embeddedName])]

\* parent._onModifyEmbeddedEntity(...): the base class prepares the data and
\* renders, Scene overrides it with an empty body
onModifyEmbeddedEntity(w, ref, ty) ==
  IF ty = "Scene"
  THEN Acc(w, << Ev("_onModifyEmbeddedEntity", IdOf(w.inst[ref].data)) >>, FALSE)
  ELSE Acc([w EXCEPT !.inst[ref].data = prepareData(@, ty)],
           << Ev("_onModifyEmbeddedEntity", IdOf(w.inst[ref].data)),
              Ev("prepareData", IdOf(w.inst[ref].data)) >> \o render(w.inst[ref]),
           FALSE)

\* the batch hook, when the loop over the children got through
modifyEmbedded(a, ref, ty) ==
  IF a.threw THEN a ELSE followUp(a, onModifyEmbeddedEntity(a.w, ref, ty))

\* _handleCreateEmbeddedEntity once parent (ref, 0 for null) and its array
\* c are looked up: the push, parent._onCreateEmbeddedEntity for each record
\* (its body is empty in Actor and in Scene), then the batch hook
createEmbedded(w, ty, request, result, ref, c) ==
  IF ref = 0 \/ c.threw THEN Acc(w, << >>, TRUE)
  ELSE IF request.options.temporary THEN Acc(w, << >>, FALSE)
  ELSE IF c.collection.t # "Array" THEN Acc(w, << >>, TRUE)
  ELSE modifyEmbedded(
         Acc([w EXCEPT !.inst[ref].data = Put(@, c.name, Arr(c.collection.v \o result))],
             [i \in 1..Len(result) |->
                Ev("_onCreateEmbeddedEntity", IdOf(result[i].v))],
             FALSE),
         ref, ty)

\* Entity._handleCreateEmbeddedEntity({request, result}) for the class ty
handleCreateEmbeddedEntity(w, ty, request, result) ==
  createEmbedded(w, ty, request, result, StoreGet(w.store, request.parentId),
                 getEmbeddedCollection(w.inst[StoreGet(w.store, request.parentId)],
                                       ty, request.type))

\* a lookup that gives every child the last record of result, whatever
\* its id
PendingGetAny(result, id) ==
  IF result = << >> THEN Undefined ELSE result[Len(result)]

\* pending.get(id) for pending = new Map(result.map(d => [d._id, d])): the
\* last record of result with that id, or undefined
PendingGet(result, id) ==
  LET hits == {i \in 1..Len(result) : IdOf(result[i].v) = id}
  IN IF hits = {} THEN Undefined
     ELSE result[CHOOSE i \in hits : \A j \in hits : j <= i]

\* parent._onUpdateEmbeddedEntity(type, doc, ...) on the raw child at index
\* i of the array name: Actor looks the Item up in its items collection and
\* prepares it (it throws when items is null or has no such Item), Scene's
\* hook is empty
onUpdateEmbeddedEntity(w, ref, ty, name, i) ==
  LET e == w.inst[ref]
      doc == e.data[name].v[i]
      id == IdOf(doc.v)
      has == ~e.items.null /\ \E j \in 1..Len(e.items.keys) : e.items.keys[j] = id
  IN IF ty = "Actor"
     THEN IF has
          THEN Acc([w EXCEPT !.inst[ref].data[name].v[i] =
                      Obj(ImgPrepareData(doc.v, "Item"))],
                   << Ev("_onUpdateEmbeddedEntity", id) >>, FALSE)
          ELSE Acc(w, << Ev("_onUpdateEmbeddedEntity", id) >>, TRUE)
     ELSE Acc(w, << Ev("_onUpdateEmbeddedEntity", id) >>, FALSE)

\* the body of the loop of _handleUpdateEmbeddedEntity for the child at
\* index i, for which the pending updates hold upd
updateOneEmbedded(a, ref, ty, name, i, upd) ==
  IF upd.t = "undefined" THEN a
  ELSE followUp(a, onUpdateEmbeddedEntity(
                     [a.w EXCEPT !.inst[ref].data[name].v[i] =
                        Obj(mergeInPlace(@.v, upd.v))],
                     ref, ty, name, i))

RECURSIVE updateEachEmbedded(_, _, _, _, _, _)
\* the loop "for (let doc of collection)" of _handleUpdateEmbeddedEntity,
\* over the children at index i and after
updateEachEmbedded(a, ref, ty, name, result, i) ==
  IF a.threw \/ i > Len(a.w.inst[ref].data[name].v) THEN a
  ELSE updateEachEmbedded(
         updateOneEmbedded(a, ref, ty, name, i,
                           PendingGet(result, IdOf(a.w.inst[ref].data[name].v[i].v))),
         ref, ty, name, result, i + 1)

\* _handleUpdateEmbeddedEntity once parent (ref, 0 for null) and its array
\* c are looked up
updateEmbedded(w, ty, result, ref, c) ==
  IF ref = 0 \/ c.threw \/ c.collection.t # "Array" THEN Acc(w, << >>, TRUE)
  ELSE modifyEmbedded(updateEachEmbedded(Acc(w, << >>, FALSE), ref, ty, c.name, result, 1),
                      ref, ty)

\* Entity._handleUpdateEmbeddedEntity({request, result}) for the class ty
handleUpdateEmbeddedEntity(w, ty, request, result) ==
  updateEmbedded(w, ty, result, StoreGet(w.store, request.parentId),
                 getEmbeddedCollection(w.inst[StoreGet(w.store, request.parentId)],
                                       ty, request.type))

\* Entity._handleDeleteEmbeddedEntity({request, result}) for the class ty:
\* after the parent and its array are looked up it calls
\* collection.partition(...), a method no source file gives to arrays, so
\* the call throws before any child is removed or any hook runs
handleDeleteEmbeddedEntity(w, ty, request, result) ==
  Acc(w, << >>, TRUE)

(***************************************************************************)
(* The calls, up to the point where they hand a request to the socket      *)
(***************************************************************************)
\* the options of a request: the defaults each call merges in, and the
\* options the caller passed; render is FALSE for options.render === false
\* and TRUE for every other value and for no value
Options(temporary, deleteAll, diff) ==
  [render |-> TRUE, temporary |-> temporary, deleteAll |-> deleteAll, diff |-> diff]

\* the options with render: false
NoRender(options) == [options EXCEPT !.render = FALSE]

\* the request of a modifyDocument / modifyEmbeddedDocument event
Request(type, action, parentType, parentId, data, options) ==
  [type |-> type, action |-> action, parentType |-> parentType,
   parentId |-> parentId, data |-> data, options |-> options]

\* what a call has done when it reaches its await or returns before it:
\* the world it leaves, and whether it threw, or returned value without a
\* request, or emitted requests
Staged(w, threw, returned, value, requests) ==
  [w |-> w, threw |-> threw, returned |-> returned, value |-> value,
   requests |-> requests, length |-> Undefined]

\* the end of update and updateEmbeddedEntity on the staged updates r:
\* nothing staged returns [], else the request goes out
stageUpdates(w, r, request) ==
  IF r.threw THEN Staged(w, TRUE, FALSE, Undefined, << >>)
  ELSE IF r.arr = << >> THEN Staged(w, FALSE, TRUE, Arr(<< >>), << >>)
  ELSE Staged(w, FALSE, FALSE, Undefined, << [request EXCEPT !.data = r.arr] >>)

\* a staging that keeps the element of an empty diff, with its _id alone
stageAll(arr, dd, id) ==
  IF dd.threw THEN [threw |-> TRUE, arr |-> arr]
  ELSE [threw |-> FALSE, arr |-> Append(arr, Obj(Put(dd.obj, "_id", id)))]

\* the body of the reduce callbacks with options.diff: dd is the diff of
\* the update against the current data, id the _id of the target; an empty
\* diff stages nothing
stageDiff(arr, dd, id) ==
  IF dd.threw THEN [threw |-> TRUE, arr |-> arr]
  ELSE IF isObjectEmpty(dd.obj) THEN [threw |-> FALSE, arr |-> arr]
  ELSE [threw |-> FALSE, arr |-> Append(arr, Obj(Put(dd.obj, "_id", id)))]

\* Entity.create(data, options) of class ty; data is an array of records
\* or, not being normalised, one record: the request carries it as it is
\* (the server creates one entity for one record), and the call keeps
\* data.length for its return
create(w, ty, data, options) ==
  [Staged(w, FALSE, FALSE, Undefined,
          << Request(ty, "create", "", "",
                     IF data.t = "Array" THEN data.v ELSE << data >>, options) >>)
     EXCEPT !.length = IF data.t = "Array" THEN Num(Len(data.v))
                       ELSE Get(data.v, "length")]

\* an Entity instance as a value a call returns, told by its id
Entity(data) == [t |-> "Entity", v |-> IdOf(data.v)]

\* the return of Entity.create after _handleCreate has returned the entities
\* of result: data.length === 1 ? entities[0] : entities
createReturn(length, result) ==
  IF length = Num(1) THEN Entity(result[1])
  ELSE Arr([n \in 1..Len(result) |-> Entity(result[n])])

\* the data.reduce callback of Entity.update for the element d, arr being
\* what is staged so far: [threw, arr]
updateStage(w, arr, d, options) ==
  IF ~Truthy(Get(d.v, "_id")) \/ ~StoreHas(w.store, IdOf(d.v))
  THEN [threw |-> TRUE, arr |-> arr]
  ELSE IF options.diff
  THEN stageDiff(arr,
                 diffObject(w.inst[StoreGet(w.store, IdOf(d.v))].data, expandObject(d.v)),
                 w.inst[StoreGet(w.store, IdOf(d.v))].data["_id"])
  ELSE [threw |-> FALSE, arr |-> Append(arr, d)]

RECURSIVE updateReduce(_, _, _, _, _)
\* data.reduce of Entity.update over data[i..], r being [threw, arr] so far
updateReduce(w, data, options, i, r) ==
  IF r.threw \/ i > Len(data) THEN r
  ELSE updateReduce(w, data, options, i + 1, updateStage(w, r.arr, data[i], options))

\* an update that leaves out the elements without an _id or with an _id the
\* collection does not hold, where Entity.update throws
updateSkipping(w, ty, data, options) ==
  stageUpdates(w, updateReduce(w, SelectSeq(data, LAMBDA d : /\ Truthy(Get(d.v, "_id"))
                                                            /\ StoreHas(w.store, IdOf(d.v))),
                               options, 1, [threw |-> FALSE, arr |-> << >>]),
               Request(ty, "update", "", "", << >>, options))

\* Entity.update(data, options) of class ty
update(w, ty, data, options) ==
  stageUpdates(w, updateReduce(w, data, options, 1, [threw |-> FALSE, arr |-> << >>]),
               Request(ty, "update", "", "", << >>, options))

\* a delete that removes the first entity locally before the server answers
deleteOptimistic(w, ty, data, options) ==
  IF \E i \in 1..Len(data) : ~StoreHas(w.store, data[i].v)
  THEN Staged(w, TRUE, FALSE, Undefined, << >>)
  ELSE Staged(remove(w, data[1].v), FALSE, FALSE, Undefined,
              << Request(ty, "delete", "", "", data, options) >>)

\* Entity.delete(data, options) of class ty; data is a sequence of ids
delete(w, ty, data, options) ==
  IF \E i \in 1..Len(data) : ~Holds(w.store, data[i])
  THEN Staged(w, TRUE, FALSE, Undefined, << >>)
  ELSE Staged(w, FALSE, FALSE, Undefined,
              << Request(ty, "delete", "", "", data, options) >>)

\* entity.createEmbeddedEntity(embeddedName, data, options) on the instance
\* with reference ref
createEmbeddedEntity(w, ty, ref, embeddedName, data, options) ==
  IF getEmbeddedCollection(w.inst[ref], ty, embeddedName).threw
  THEN Staged(w, TRUE, FALSE, Undefined, << >>)
  ELSE Staged(w, FALSE, FALSE, Undefined,
              << Request(embeddedName, "create", ty, IdOf(w.inst[ref].data),
                         data, options) >>)

\* the collection.reduce callback of updateEmbeddedEntity for the child d,
\* for which the pending updates hold upd
updateEmbeddedStage(arr, d, upd, options) ==
  IF upd.t = "undefined" THEN [threw |-> FALSE, arr |-> arr]
  ELSE IF options.diff
  THEN stageDiff(arr, diffObject(d.v, expandObject(upd.v)), d.v["_id"])
  ELSE [threw |-> FALSE, arr |-> Append(arr, upd)]

RECURSIVE updateEmbeddedReduce(_, _, _, _, _)
\* collection.reduce of updateEmbeddedEntity over collection[i..]
updateEmbeddedReduce(collection, data, options, i, r) ==
  IF r.threw \/ i > Len(collection) THEN r
  ELSE updateEmbeddedReduce(collection, data, options, i + 1,
                            updateEmbeddedStage(r.arr, collection[i],
                                                PendingGet(data, IdOf(collection[i].v)),
                                                options))

\* entity.updateEmbeddedEntity(embeddedName, data, options): it throws for
\* an update without _id and for a missing array
updateEmbeddedEntity(w, ty, ref, embeddedName, data, options) ==
  LET c == getEmbeddedCollection(w.inst[ref], ty, embeddedName)
  IN IF c.threw \/ c.collection.t # "Array"
          \/ \E i \in 1..Len(data) : ~Truthy(Get(data[i].v, "_id"))
     THEN Staged(w, TRUE, FALSE, Undefined, << >>)
     ELSE stageUpdates(w,
                       updateEmbeddedReduce(c.collection.v, data, options, 1,
                                            [threw |-> FALSE, arr |-> << >>]),
                       Request(embeddedName, "update", ty, IdOf(w.inst[ref].data),
                               << >>, options))

\* the ids of the children deleteEmbeddedEntity finds among data
deletions(collection, data) ==
  [i \in 1..Len(SelectSeq(collection,
                          LAMBDA d : \E j \in 1..Len(data) : data[j] = d.v["_id"])) |->
     SelectSeq(collection,
               LAMBDA d : \E j \in 1..Len(data) : data[j] = d.v["_id"])[i].v["_id"]]

\* entity.deleteEmbeddedEntity(embeddedName, data, options); data is a
\* sequence of ids
deleteEmbeddedEntity(w, ty, ref, embeddedName, data, options) ==
  LET c == getEmbeddedCollection(w.inst[ref], ty, embeddedName)
  IN IF c.threw \/ c.collection.t # "Array" THEN Staged(w, TRUE, FALSE, Undefined, << >>)
     ELSE IF deletions(c.collection.v, data) = << >>
     THEN Staged(w, FALSE, TRUE, Arr(<< >>), << >>)
     ELSE Staged(w, FALSE, FALSE, Undefined,
                 << Request(embeddedName, "delete", ty, IdOf(w.inst[ref].data),
                            deletions(c.collection.v, data), options) >>)

(***************************************************************************)
(* SocketInterface.dispatch and the socket listeners                       *)
(***************************************************************************)
\* the request of a response that carries none (an error payload)
NoRequest == Request("", "", "", "", << >>, Options(FALSE, FALSE, FALSE))

\* SocketInterface._handleError(err) for a payload that is no Error
\* instance: a new Error with the payload's message
handleError(err) == Obj([message |-> Get(err.v, "message")])

\* an acknowledgement that resolves whatever the response holds
dispatchResolving(response) == [settled |-> "resolved", value |-> Undefined]

\* the acknowledgement callback of SocketInterface.dispatch: how the promise
\* settles for a response
dispatch(response) ==
  IF Truthy(response.error)
  THEN [settled |-> "rejected", value |-> handleError(response.error)]
  ELSE [settled |-> "resolved", value |-> response]

\* a response of the server: the request echoed with the result, or an
\* error payload
Response(request, result) == [error |-> Undefined, request |-> request, result |-> result]
ErrorResponse(err) == [error |-> err, request |-> NoRequest, result |-> << >>]

\* the handler for an action of the event, run on {request, result}: the
\* switch of the two listeners of Entity.activateSocketListeners, and what
\* each call runs on its own response.  Every handler starts by reading
\* request.options, which throws when the response has no request.
Handle(w, ty, event, action, request, result) ==
  IF request.action = "" THEN Acc(w, << >>, TRUE)
  ELSE IF event = "modifyDocument" THEN
    CASE action = "create" -> handleCreate(w, ty, request, result)
      [] action = "update" -> handleUpdate(w, ty, request, result)
      [] action = "delete" -> handleDelete(w, ty, request, result)
      [] OTHER -> Acc(w, << >>, FALSE)
  ELSE
    CASE action = "create" -> handleCreateEmbeddedEntity(w, ty, request, result)
      [] action = "update" -> handleUpdateEmbeddedEntity(w, ty, request, result)
      [] action = "delete" -> handleDeleteEmbeddedEntity(w, ty, request, result)
      [] OTHER -> Acc(w, << >>, FALSE)

\* requests in flight at once
MaxPending == 1
\* records in the raw source array
MaxSource == 2
\* records in one embedded array
MaxChildren == 2
\* how many times the socket may invoke the acknowledgement of one request
MaxAcks == 2

World == [inst |-> inst, store |-> store, source |-> source]
NoWorld == [inst |-> << >>, store |-> << >>, source |-> << >>]

SetWorldNow(w) ==
  /\ inst = w.inst
  /\ store = w.store
  /\ source = w.source

SetWorld(w) ==
  /\ inst' = w.inst
  /\ store' = w.store
  /\ source' = w.source

\* the ids the server gives entities and embedded children
Ids == {"a1", "a2"}
ChildIds == {"i1", "i2"}

\* ENTITY_TYPES: the allowed Entity class types
ENTITY_TYPES ==
  {"Actor", "ChatMessage", "Combat", "Item", "Folder", "JournalEntry", "Macro",
   "Playlist", "RollTable", "Scene", "User"}

\* the permission maps of the model
OwnerMap == Obj([default |-> Num(0), u1 |-> Num(3)])
ObserverMap == Obj([default |-> Num(2)])

\* an embedded child record and a top-level record as the server sends them
Child(id, foo) == Obj([_id |-> Str(id), name |-> Str("Sword"), foo |-> Num(foo)])
NewChild == Obj([name |-> Str("Sword"), foo |-> Num(1)])
NewRecord(ty, children) ==
  IF ty = "Actor"
  THEN Obj([name |-> Str("Thing"), foo |-> Num(1), permission |-> OwnerMap,
            token |-> Obj([name |-> Str("Thing")]), items |-> Arr(children)])
  ELSE IF ty = "Combat"
  THEN Obj([foo |-> Num(1), active |-> Bool(FALSE), round |-> Num(0),
            turn |-> Num(0), combatants |-> Arr(children)])
  ELSE Obj([name |-> Str("Thing"), foo |-> Num(1), permission |-> OwnerMap,
            active |-> Bool(FALSE), tokens |-> Arr(children)])
Record(ty, id, children) == Obj(Put(NewRecord(ty, children).v, "_id", Str(id)))

RECURSIVE InitializeUncaught(_, _, _)
\* an _initialize whose loop ends at the first record on which
\* prepareEmbeddedEntities throws, as if Entity#initialize had no try
InitializeUncaught(data, ty, n) ==
  IF n = 0 THEN NoWorld
  ELSE LET w == InitializeUncaught(data, ty, n - 1)
           e == Construct(data[n].v, ty)
       IN IF Len(w.source) < n - 1
             \/ ty = "Combat"
             \/ (ty = "Actor" /\ Get(data[n].v, "items").t # "Array")
          THEN w
          ELSE [inst |-> (n :> e) @@ w.inst,
                store |-> StoreSet(w.store, IdOf(e.data), n),
                source |-> Append(w.source, n)]

RECURSIVE Initialize(_, _, _)
\* new EntityCollection(data): _source is data, and _initialize sets one
\* instance per record, over data[1..n]
Initialize(data, ty, n) ==
  IF n = 0 THEN NoWorld
  ELSE LET w == Initialize(data, ty, n - 1)
           e == Construct(data[n].v, ty)
       IN [inst |-> (n :> e) @@ w.inst,
           store |-> StoreSet(w.store, IdOf(e.data), n),
           source |-> Append(w.source, n)]

\* the step taken last; clean tells, of the response to a request, that no
\* other response or notification was handled while the request was in flight
\* (now is the reading of the clock, which stands at 0 wherever no step
\* lets time pass)
Last(step, event, action, request, result, outcome, value, handler, trace, emitted) ==
  [step |-> step, event |-> event, action |-> action, request |-> request,
   result |-> result, outcome |-> outcome, value |-> value, handler |-> handler,
   trace |-> trace, emitted |-> emitted, clean |-> TRUE, stateUpdate |-> 0,
   now |-> 0]

\* the state once the game has set up the collection from a snapshot
InitOf(snapshots) ==
  /\ ctype \in Types
  /\ \E data \in snapshots :
       LET w == Initialize([i \in 1..Len(data) |->
                              Record(ctype, data[i].id, data[i].children)],
                           ctype, Len(data))
       IN /\ inst = w.inst
          /\ store = w.store
          /\ source = w.source
  /\ pending = << >>
  /\ last = Last("init", "", "", NoRequest, << >>, "none", Undefined, FALSE, << >>, 0)

\* a request in flight: the world before the call that emitted it is kept for as long
\* as no response or notification has been handled since
InFlight(event, request, w) ==
  [event |-> event, request |-> request, clean |-> TRUE, snap |-> w,
   length |-> Undefined]
Handled(ps) == [i \in 1..Len(ps) |-> [ps[i] EXCEPT !.clean = FALSE, !.snap = NoWorld]]
RemoveAt(ps, i) == SubSeq(ps, 1, i - 1) \o SubSeq(ps, i + 1, Len(ps))

\* a call runs up to its await: st is what it staged
CallStep(st, event, action) ==
  /\ Len(pending) + Len(st.requests) <= MaxPending
  /\ SetWorld(st.w)
  /\ pending' = pending \o [i \in 1..Len(st.requests) |->
                              [InFlight(event, st.requests[i], World)
                                 EXCEPT !.length = st.length]]
  /\ last' = Last("call", event, action,
                  IF st.requests = << >> THEN NoRequest ELSE st.requests[1], << >>,
                  IF st.threw THEN "rejected"
                  ELSE IF st.returned THEN "resolved" ELSE "pending",
                  st.value, FALSE, << >>, Len(st.requests))
  /\ UNCHANGED ctype

\* a handled message keeps the raw arrays within the bounds of the model
WithinBounds(w) ==
  /\ Len(w.source) <= MaxSource
  /\ \A r \in DOMAIN w.inst : \A k \in {"items", "tokens"} :
       Get(w.inst[r].data, k).t = "Array" => Len(w.inst[r].data[k].v) <= MaxChildren

\* the acknowledgement of the request in flight at position i arrives: d is
\* how dispatch settles the promise, and on resolution the call goes on to
\* run its handler, h; what the handler throws rejects the promise of the call
Settle(i, response, d, h) ==
  IF d.settled = "rejected"
  THEN /\ pending' = RemoveAt(pending, i)
       /\ last' = Last("response", pending[i].event, pending[i].request.action,
                       pending[i].request, << >>, "rejected", d.value, FALSE, << >>, 0)
       /\ UNCHANGED << ctype, inst, store, source >>
  ELSE /\ WithinBounds(h.w)
       /\ SetWorld(Collect(h.w))
       /\ pending' = Handled(RemoveAt(pending, i))
       /\ last' = [Last("response", pending[i].event, pending[i].request.action,
                        pending[i].request, response.result,
                        IF h.threw THEN "rejected" ELSE "resolved",
                        IF ~h.threw /\ pending[i].event = "modifyDocument"
                                    /\ pending[i].request.action = "create"
                        THEN createReturn(pending[i].length, response.result)
                        ELSE Undefined,
                        TRUE, h.trace, 0)
                     EXCEPT !.clean = pending[i].clean]
       /\ UNCHANGED ctype

\* the server answers the request in flight at position i
Deliver(i, response) ==
  Settle(i, response, dispatch(response),
         Handle(World, ctype, pending[i].event, pending[i].request.action,
                response.request, response.result))

\* a listener without catch and finally: what the handler throws leaves the
\* listener, and the callback of the session runs after a handler that
\* returned
listenedUncaught(h) ==
  [outcome |-> IF h.threw THEN "thrown" ELSE "handled",
   stateUpdate |-> IF h.threw THEN 0 ELSE 1]

\* the try / catch / finally of a listener around its handler, h: what the
\* handler throws is logged and swallowed, and window.game.stateUpdate()
\* runs in the finally
listened(h) ==
  [outcome |-> IF h.threw THEN "swallowed" ELSE "handled", stateUpdate |-> 1]

\* the listener ran its handler, h, in a try that swallows what it throws
Listened(event, response, mine, h) ==
  /\ WithinBounds(h.w)
  /\ SetWorld(Collect(h.w))
  /\ pending' = Handled(pending)
  /\ last' = [Last("notify", event, response.request.action, response.request,
                   response.result, listened(h).outcome, Undefined, mine, h.trace, 0)
                EXCEPT !.stateUpdate = listened(h).stateUpdate]
  /\ UNCHANGED ctype

\* a listener of Entity.activateSocketListeners receives a pushed message:
\* modifyDocument returns at once for a type outside ENTITY_TYPES, and a
\* message for another class goes to the handlers of that class
Listen(event, response) ==
  IF event = "modifyDocument" /\ response.request.type \notin ENTITY_TYPES
  THEN /\ last' = Last("notify", event, response.request.action, response.request,
                       response.result, "ignored", Undefined, FALSE, << >>, 0)
       /\ UNCHANGED << ctype, inst, store, source, pending >>
  ELSE IF ctype = (IF event = "modifyDocument" THEN response.request.type
                   ELSE response.request.parentType)
  THEN Listened(event, response, TRUE,
                Handle(World, ctype, event, response.request.action,
                       response.request, response.result))
  ELSE Listened(event, response, FALSE, Acc(World, << >>, FALSE))

(***************************************************************************)
(* The calls the page makes and the messages the server sends              *)
(***************************************************************************)
In(data, options) == [data |-> data, options |-> options]
EmbeddedIn(parentId, embeddedName, data, options) ==
  [parentId |-> parentId, embeddedName |-> embeddedName, data |-> data,
   options |-> options]

\* the embedded type of class ty
EmbeddedName(ty) == IF ty = "Actor" THEN "OwnedItem" ELSE "Token"

\* the key of the raw array of embedded children in the data of class ty
ArrayName(ty) == IF ty = "Actor" THEN "items" ELSE "tokens"

\* the fields an update changes
Fields(ty) ==
  {[foo |-> Num(2)], [permission |-> ObserverMap]}
    \cup (IF ty = "Actor" THEN {[items |-> Arr(<< Child("i1", 1) >>)]}
          ELSE {[active |-> Bool(TRUE)]})
UpdateRecords(ty, ids) == {Obj(Put(f, "_id", Str(x))) : f \in Fields(ty), x \in ids}

\* an update record that repeats what the entity with id x holds under key k
Echo(w, x, k) ==
  Obj(("_id" :> Str(x)) @@ (k :> Get(w.inst[StoreGet(w.store, x)].data, k)))
EchoRecords(w, keys) ==
  {Echo(w, x, k) : x \in {y \in Ids : StoreHas(w.store, y)}, k \in keys}
EchoBatches(w) ==
  IF StoreHas(w.store, "a1") /\ StoreHas(w.store, "a2")
  THEN {<< Echo(w, "a1", "foo"), Echo(w, "a2", "foo") >>} ELSE {}

\* the update calls with the default diff whose every field repeats the
\* current data of its target
EchoCalls(w, ty) ==
  {In(<< r >>, Options(FALSE, FALSE, TRUE)) :
     r \in EchoRecords(w, {"foo", ArrayName(ty)})}
    \cup {In(b, Options(FALSE, FALSE, TRUE)) : b \in EchoBatches(w)}

\* the calls of the page on the collection
CreateCalls(ty) ==
  {In(Arr(<< NewRecord(ty, << >>) >>), Options(t, FALSE, FALSE)) : t \in BOOLEAN}
UpdateCalls(w, ty) ==
  {In(<< r >>, Options(FALSE, FALSE, TRUE)) :
     r \in UpdateRecords(ty, {"a2"}) \cup {Obj([foo |-> Num(2)])}}
    \cup EchoCalls(w, ty)
    \cup {In(<< r >>, Options(FALSE, FALSE, FALSE)) : r \in EchoRecords(w, {"foo"})}
DeleteCalls ==
  {In(<< Str(x) >>, Options(FALSE, FALSE, FALSE)) : x \in Ids}
    \cup {In(<< Str("a1") >>, Options(FALSE, TRUE, FALSE))}

\* the messages the server pushes about the collection
CreateMessages(ty) ==
  {Response(Request(ty, "create", "", "", << NewRecord(ty, << >>) >>,
                    Options(FALSE, FALSE, FALSE)),
            << Record(ty, x, << >>) >>) : x \in Ids}
    \cup {Response(Request("Setting", "create", "", "", << >>,
                           Options(FALSE, FALSE, FALSE)), << >>)}
UpdateMessages(ty, ids) ==
  {Response(Request(ty, "update", "", "", << r >>, Options(FALSE, FALSE, TRUE)),
            << r >>) : r \in UpdateRecords(ty, ids)}
DeleteMessages(ty) ==
  {Response(Request(ty, "delete", "", "", << Str(x) >>, Options(FALSE, FALSE, FALSE)),
            << Str(x) >>) : x \in Ids}
    \cup {Response(Request(ty, "delete", "", "", << Str("a1") >>,
                           Options(FALSE, TRUE, FALSE)),
                   res) : res \in {<< Str("a1") >>, << >>}}

\* every way to give n records ids out of free, no id twice
RECURSIVE IdSeqs(_, _)
IdSeqs(free, n) ==
  IF n = 0 THEN {<< >>}
  ELSE UNION {{<< x >> \o r : r \in IdSeqs(free \ {x}, n - 1)} : x \in free}

\* the results the server may answer a request with: created records get
\* ids no record has yet, updates and deletions are echoed, and the id list
\* of a deleteAll may also be empty
ServerResults(w, request) ==
  LET parent == StoreGet(w.store, request.parentId)
      arr == IF parent = 0 THEN Undefined
             ELSE Get(w.inst[parent].data, IF request.type = "OwnedItem" THEN "items"
                                           ELSE "tokens")
      used == IF request.parentType = ""
              THEN {w.store[i].id : i \in 1..Len(w.store)}
              ELSE IF arr.t = "Array" THEN {IdOf(arr.v[i].v) : i \in 1..Len(arr.v)}
              ELSE {}
      free == (IF request.parentType = "" THEN Ids ELSE ChildIds) \ used
  IN IF request.action = "create"
     THEN {[i \in 1..Len(request.data) |-> Obj(Put(request.data[i].v, "_id", Str(ids[i])))] :
             ids \in IdSeqs(free, Len(request.data))}
     ELSE IF request.action = "delete" /\ request.options.deleteAll
     THEN {request.data, << >>}
     ELSE {request.data}

\* the error payloads of the server
Errors == {Obj([message |-> Str("denied")]), Obj([message |-> Str("missing")])}

CallCreate(calls) ==
  \E c \in calls :
    CallStep(create(World, ctype, c.data, c.options), "modifyDocument", "create")

CallUpdate(calls) ==
  \E c \in calls :
    CallStep(update(World, ctype, c.data, c.options), "modifyDocument", "update")

CallDelete(calls) ==
  \E c \in calls :
    CallStep(delete(World, ctype, c.data, c.options), "modifyDocument", "delete")

Respond ==
  \E i \in 1..Len(pending) :
    \E result \in ServerResults(World, pending[i].request) :
      Deliver(i, Response(pending[i].request, result))

RespondError ==
  \E i \in 1..Len(pending) : \E err \in Errors : Deliver(i, ErrorResponse(err))

NotifyCreate(messages) == \E m \in messages : Listen("modifyDocument", m)
NotifyUpdate(messages) == \E m \in messages : Listen("modifyDocument", m)
NotifyDelete(messages) == \E m \in messages : Listen("modifyDocument", m)

CallCreateEmbedded(calls) ==
  \E c \in calls :
    /\ StoreHas(store, c.parentId)
    /\ CallStep(createEmbeddedEntity(World, ctype, StoreGet(store, c.parentId),
                                     c.embeddedName, c.data, c.options),
                "modifyEmbeddedDocument", "create")

CallUpdateEmbedded(calls) ==
  \E c \in calls :
    /\ StoreHas(store, c.parentId)
    /\ CallStep(updateEmbeddedEntity(World, ctype, StoreGet(store, c.parentId),
                                     c.embeddedName, c.data, c.options),
                "modifyEmbeddedDocument", "update")

CallDeleteEmbedded(calls) ==
  \E c \in calls :
    /\ StoreHas(store, c.parentId)
    /\ CallStep(deleteEmbeddedEntity(World, ctype, StoreGet(store, c.parentId),
                                     c.embeddedName, c.data, c.options),
                "modifyEmbeddedDocument", "delete")

NotifyEmbedded(messages) == \E m \in messages : Listen("modifyEmbeddedDocument", m)

\* the calls of the page on the embedded children of the entity parentId
EmbeddedCreateCalls(ty, parentId) ==
  {EmbeddedIn(parentId, n, << NewChild >>, Options(t, FALSE, FALSE)) :
     n \in {EmbeddedName(ty), "Folder"}, t \in BOOLEAN}
ChildUpdates ==
  {<< Obj([_id |-> Str(c), foo |-> Num(2)]) >> : c \in ChildIds}
    \cup {<< Obj([_id |-> Str("i1"), foo |-> Num(2)]),
             Obj([_id |-> Str("i2"), foo |-> Num(2)]) >>,
          << Obj([_id |-> Str("i1"), foo |-> Num(1)]) >>}
EmbeddedUpdateCalls(ty, parentId) ==
  {EmbeddedIn(parentId, EmbeddedName(ty), d, Options(FALSE, FALSE, TRUE)) :
     d \in ChildUpdates}
EmbeddedDeleteCalls(ty, parentId) ==
  {EmbeddedIn(parentId, EmbeddedName(ty), << Str(c) >>, Options(FALSE, FALSE, FALSE)) :
     c \in ChildIds}

\* the messages the server pushes about the embedded children
EmbeddedMessages(ty, parentIds) ==
  UNION {
    {Response(Request(EmbeddedName(ty), "create", ty, x, << NewChild >>,
                      Options(FALSE, FALSE, FALSE)), << Child(c, 1) >>) : c \in ChildIds}
    \cup {Response(Request(EmbeddedName(ty), "create", ty, x, << NewChild, NewChild >>,
                           Options(FALSE, FALSE, FALSE)),
                   << Child("i1", 1), Child("i2", 1) >>)}
    \cup {Response(Request(EmbeddedName(ty), "update", ty, x, d,
                           Options(FALSE, FALSE, TRUE)), d) : d \in ChildUpdates}
    \cup {Response(Request(EmbeddedName(ty), "delete", ty, x, << Str(c) >>,
                           Options(FALSE, FALSE, FALSE)), << Str(c) >>) : c \in ChildIds}
    : x \in parentIds}

\* the snapshots the collection is set up from
Snapshots ==
  {<< [id |-> "a1", children |-> << Child("i1", 1) >>] >>,
   << [id |-> "a1", children |-> << Child("i1", 1) >>],
      [id |-> "a2", children |-> << >>] >>}
OneParent == {<< [id |-> "a1", children |-> << Child("i1", 1) >>] >>}

(***************************************************************************)
(* Every call and the answers to it, on one entity and its children        *)
(***************************************************************************)
Init == InitOf(OneParent)

Next ==
  \/ CallCreate({In(Arr(<< NewRecord(ctype, << >>) >>), Options(FALSE, FALSE, FALSE))})
  \/ CallUpdate({In(<< r >>, Options(FALSE, FALSE, TRUE)) :
                   r \in {Obj([_id |-> Str("a1"), foo |-> Num(2)])}
                           \cup EchoRecords(World, {"foo"})})
  \/ CallDelete({In(<< Str("a1") >>, Options(FALSE, FALSE, FALSE))})
  \/ CallCreateEmbedded({EmbeddedIn("a1", EmbeddedName(ctype), << NewChild >>,
                                    Options(FALSE, FALSE, FALSE))})
  \/ CallUpdateEmbedded({EmbeddedIn("a1", EmbeddedName(ctype),
                                    << Obj([_id |-> Str("i1"), foo |-> Num(2)]) >>,
                                    Options(FALSE, FALSE, TRUE))})
  \/ CallDeleteEmbedded({EmbeddedIn("a1", EmbeddedName(ctype), << Str("i1") >>,
                                    Options(FALSE, FALSE, FALSE))})
  \/ Respond
  \/ RespondError
  \/ NotifyUpdate({m \in UpdateMessages(ctype, {"a1"}) :
                     "permission" \notin DOMAIN m.result[1].v})

Spec == Init /\ [][Next]_vars

(***************************************************************************)
(* The membership of the collection: creations and deletions               *)
(***************************************************************************)
NextStore ==
  \/ CallCreate(CreateCalls(ctype))
  \/ CallDelete(DeleteCalls)
  \/ Respond
  \/ RespondError
  \/ NotifyCreate(CreateMessages(ctype))
  \/ NotifyDelete(DeleteMessages(ctype))

SpecStore == InitOf(Snapshots) /\ [][NextStore]_vars

(***************************************************************************)
(* The data of the entities of a collection: updates                       *)
(***************************************************************************)
NextUpdate ==
  \/ CallUpdate(UpdateCalls(World, ctype))
  \/ Respond
  \/ RespondError
  \/ NotifyUpdate(UpdateMessages(ctype, Ids))

SpecUpdate == InitOf(Snapshots) /\ [][NextUpdate]_vars

(***************************************************************************)
(* The embedded children of one entity                                     *)
(***************************************************************************)
NextEmbedded ==
  \/ CallCreateEmbedded(EmbeddedCreateCalls(ctype, "a1"))
  \/ CallUpdateEmbedded(EmbeddedUpdateCalls(ctype, "a1"))
  \/ CallDeleteEmbedded(EmbeddedDeleteCalls(ctype, "a1"))
  \/ Respond
  \/ RespondError
  \/ NotifyEmbedded(EmbeddedMessages(ctype, Ids))
  \/ NotifyUpdate({Response(Request(ctype, "update", "", "", << r >>,
                                    Options(FALSE, FALSE, TRUE)), << r >>) :
                     r \in {Obj([_id |-> Str("a1"),
                                 items |-> Arr(<< Child("i1", 1) >>)])}})

SpecEmbedded == InitOf(OneParent) /\ [][NextEmbedded]_vars

(***************************************************************************)
(* Entities of every class with applications attached: updates, deletions  *)
(***************************************************************************)
\* the applications the page has attached to the entities (entity.apps)
Sheets == [a1 |-> << "sheet1" >>, a2 |-> << "sheet2", "hud2" >>]

\* the world w after the page has registered the applications apps
attach(w, apps) ==
  [w EXCEPT !.inst = [r \in DOMAIN w.inst |->
                        [w.inst[r] EXCEPT !.apps = apps[IdOf(w.inst[r].data)]]]]

InitApps ==
  /\ ctype \in Classes
  /\ LET w == attach(Initialize([i \in 1..2 |->
                                  Record(ctype, << "a1", "a2" >>[i], << >>)],
                               ctype, 2), Sheets)
     IN /\ inst = w.inst
        /\ store = w.store
        /\ source = w.source
  /\ pending = << >>
  /\ last = Last("init", "", "", NoRequest, << >>, "none", Undefined, FALSE, << >>, 0)

\* the update and delete batches on the two entities
FooBatches(v) ==
  {<< Obj([_id |-> Str("a1"), foo |-> Num(v)]) >>,
   << Obj([_id |-> Str("a2"), foo |-> Num(v)]),
      Obj([_id |-> Str("a1"), foo |-> Num(v)]) >>}
IdBatches == {<< Str("a1") >>, << Str("a2"), Str("a1") >>}

NextApps ==
  \/ CallUpdate({In(d, Options(FALSE, FALSE, TRUE)) : d \in FooBatches(2)})
  \/ CallDelete({In(d, Options(FALSE, FALSE, FALSE)) : d \in IdBatches})
  \/ Respond
  \/ RespondError
  \/ NotifyUpdate({Response(Request(ctype, "update", "", "", d,
                                    Options(FALSE, FALSE, TRUE)), d) :
                     d \in FooBatches(3)})
  \/ NotifyDelete({Response(Request(ctype, "delete", "", "", d,
                                    Options(FALSE, FALSE, FALSE)), d) :
                     d \in IdBatches})
  \/ NotifyCreate({Response(Request(ctype, "create", "", "",
                                    << NewRecord(ctype, << >>) >>,
                                    Options(FALSE, FALSE, FALSE)),
                            << Record(ctype, x, << >>) >>) :
                     x \in {"a1"} \ StoreKeySet(store)})

SpecApps == InitApps /\ [][NextApps]_vars

(***************************************************************************)
(* Batches with elements the static calls refuse                           *)
(***************************************************************************)
\* update batches: valid ones, and ones with an element that has no _id, an
\* empty _id, or the _id of an entity that may not be in the collection
MixedUpdates ==
  {<< Obj([_id |-> Str("a1"), foo |-> Num(2)]) >>,
   << Obj([_id |-> Str("a1"), foo |-> Num(2)]), Obj([foo |-> Num(2)]) >>,
   << Obj([_id |-> Str(""), foo |-> Num(2)]), Obj([_id |-> Str("a1"), foo |-> Num(2)]) >>,
   << Obj([_id |-> Str("a1"), foo |-> Num(2)]), Obj([_id |-> Str("a2"), foo |-> Num(2)]) >>}

\* delete batches: ids that may not be in the collection, and a missing id
MixedDeletes ==
  {<< Str("a1") >>, << Str("a1"), Str("a2") >>, << Str("a1"), Undefined >>,
   << Undefined, Str("a1") >>}

NextCalls ==
  \/ CallUpdate({In(d, Options(FALSE, FALSE, TRUE)) : d \in MixedUpdates})
  \/ CallDelete({In(d, Options(FALSE, FALSE, FALSE)) : d \in MixedDeletes})
  \/ Respond
  \/ RespondError
  \/ NotifyCreate({Response(Request(ctype, "create", "", "",
                                    << NewRecord(ctype, << >>) >>,
                                    Options(FALSE, FALSE, FALSE)),
                            << Record(ctype, "a2", << >>) >>)})
  \/ NotifyDelete({Response(Request(ctype, "delete", "", "", << Str("a2") >>,
                                    Options(FALSE, FALSE, FALSE)), << Str("a2") >>)})

SpecCalls == InitOf(Snapshots) /\ [][NextCalls]_vars

(***************************************************************************)
(* Embedded batches with elements that carry no id                         *)
(***************************************************************************)
\* update batches on the children of a1, with and without an _id
MixedChildUpdates ==
  {<< Obj([_id |-> Str("i1"), foo |-> Num(2)]) >>,
   << Obj([foo |-> Num(2)]) >>,
   << Obj([_id |-> Str("i1"), foo |-> Num(2)]), Obj([foo |-> Num(2)]) >>}

\* delete batches on the children of a1, with and without a missing id
MixedChildDeletes ==
  {<< Str("i1") >>, << Undefined >>, << Str("i1"), Undefined >>}

NextEmbeddedCalls ==
  \/ CallUpdateEmbedded({EmbeddedIn("a1", EmbeddedName(ctype), d,
                                    Options(FALSE, FALSE, diff)) :
                           d \in MixedChildUpdates, diff \in BOOLEAN})
  \/ CallDeleteEmbedded({EmbeddedIn("a1", EmbeddedName(ctype), d,
                                    Options(FALSE, FALSE, FALSE)) :
                           d \in MixedChildDeletes})
  \/ Respond
  \/ RespondError
  \/ NotifyEmbedded(EmbeddedMessages(ctype, {"a1"}))

SpecEmbeddedCalls == InitOf(OneParent) /\ [][NextEmbeddedCalls]_vars

(***************************************************************************)
(* Creations of one record and of two, kept or temporary                   *)
(***************************************************************************)
\* the data Entity.create is called with: one record as an object, one
\* record in an array, two records in an array
CreateInputs(ty) ==
  {NewRecord(ty, << >>), Arr(<< NewRecord(ty, << >>) >>),
   Arr(<< NewRecord(ty, << >>), NewRecord(ty, << >>) >>)}

NextCreate ==
  \/ CallCreate({In(d, Options(t, FALSE, FALSE)) :
                   d \in CreateInputs(ctype), t \in BOOLEAN})
  \/ Respond
  \/ RespondError
  \/ NotifyCreate({Response(Request(ctype, "create", "", "", d, Options(t, FALSE, FALSE)),
                            [n \in 1..Len(d) |->
                               Obj(Put(d[n].v, "_id", Str(<< "a1", "a2" >>[n])))]) :
                     d \in {<< NewRecord(ctype, << >>) >>,
                            << NewRecord(ctype, << >>), NewRecord(ctype, << >>) >>},
                     t \in BOOLEAN})
  \/ NotifyDelete({Response(Request(ctype, "delete", "", "", << Str(x) >>,
                                    Options(FALSE, FALSE, FALSE)), << Str(x) >>) :
                     x \in Ids})

SpecCreate == InitOf({<< >>} \cup OneParent) /\ [][NextCreate]_vars

(***************************************************************************)
(* Batches of one and two records, with and without options.render         *)
(***************************************************************************)
\* the options of the batches: the defaults, and render: false
RenderOptions(diff) == {Options(FALSE, FALSE, diff), NoRender(Options(FALSE, FALSE, diff))}

NextRender ==
  \/ CallUpdate({In(<< Obj([_id |-> Str("a1"), foo |-> Num(2)]) >>, o) :
                   o \in RenderOptions(TRUE)})
  \/ CallDelete({In(<< Str("a2"), Str("a1") >>, NoRender(Options(FALSE, FALSE, FALSE)))})
  \/ Respond
  \/ RespondError
  \/ NotifyCreate({Response(Request(ctype, "create", "", "",
                                    << NewRecord(ctype, << >>), NewRecord(ctype, << >>) >>, o),
                            << Record(ctype, "a2", << >>), Record(ctype, "a1", << >>) >>) :
                     o \in IF store = << >> THEN RenderOptions(FALSE) ELSE {}})
  \/ NotifyUpdate({Response(Request(ctype, "update", "", "", d, o), d) :
                     d \in FooBatches(3), o \in RenderOptions(TRUE)})
  \/ NotifyDelete({Response(Request(ctype, "delete", "", "", d, o), d) :
                     d \in IdBatches, o \in RenderOptions(FALSE)})

SpecRender == InitOf(Snapshots) /\ [][NextRender]_vars

(***************************************************************************)
(* The payload of Entity.update with the diff option                       *)
(***************************************************************************)
\* what an update record may ask besides its _id: a scalar as it is or
\* changed, a changed scalar next to one as it is, a part of the permission
\* map as it is or changed, a dotted key, and the array of children as it is
DiffFields(w, ty, x) ==
  {"foo" :> Num(1), "foo" :> Num(2),
   ("foo" :> Num(2)) @@ ("name" :> Str("Thing")),
   "permission" :> Obj("default" :> Num(0)),
   "permission" :> ObserverMap,
   "token.name" :> Str("Other"),
   ArrayName(ty) :> Get(w.inst[StoreGet(w.store, x)].data, ArrayName(ty))}
DiffRecords(w, ty, x) ==
  IF StoreHas(w.store, x)
  THEN {Obj(Put(f, "_id", Str(x))) : f \in DiffFields(w, ty, x)} ELSE {}

\* the update calls with the default diff: one record of a1, or one of a1
\* asking foo followed by one of a2 that asks foo as it is or changed
DiffCalls(w, ty) ==
  {In(<< r >>, Options(FALSE, FALSE, TRUE)) : r \in DiffRecords(w, ty, "a1")}
    \cup {In(<< r, q >>, Options(FALSE, FALSE, TRUE)) :
            r \in {d \in DiffRecords(w, ty, "a1") : "foo" \in DOMAIN d.v},
            q \in {d \in DiffRecords(w, ty, "a2") : DOMAIN d.v = {"_id", "foo"}}}

NextDiff ==
  \/ CallUpdate(DiffCalls(World, ctype))
  \/ Respond
  \/ RespondError
  \/ NotifyUpdate({m \in UpdateMessages(ctype, {"a1"}) :
                     "foo" \in DOMAIN m.result[1].v})

SpecDiff == InitOf(Snapshots) /\ [][NextDiff]_vars

(***************************************************************************)
(* SocketInterface.dispatch: the promise of one emitted request            *)
(***************************************************************************)
\* the promise dispatch returns for the request it emitted: settles counts
\* the changes of its state, acks the invocations of the acknowledgement
Promise(event, request) ==
  [event |-> event, request |-> request, settled |-> "pending", value |-> Undefined,
   settles |-> 0, acks |-> 0]

\* a promise that takes every resolve and reject, settled or not
settleAgain(p, d) ==
  [p EXCEPT !.settled = d.settled, !.value = d.value, !.settles = @ + 1]

\* resolve(response) or reject(err) on the promise p, d being what the
\* acknowledgement callback chose: a settled promise ignores both
settle(p, d) ==
  IF p.settled = "pending"
  THEN [p EXCEPT !.settled = d.settled, !.value = d.value, !.settles = @ + 1]
  ELSE p

\* the requests handed to dispatch
DispatchRequests(ty) ==
  {Request(ty, "update", "", "", << Obj([_id |-> Str("a1"), foo |-> Num(2)]) >>,
           Options(FALSE, FALSE, TRUE)),
   Request(ty, "create", "", "", << NewRecord(ty, << >>) >>,
           Options(FALSE, FALSE, FALSE)),
   Request(ty, "delete", "", "", << Str("a1") >>, Options(FALSE, FALSE, FALSE)),
   Request(EmbeddedName(ty), "update", ty, "a1",
           << Obj([_id |-> Str("i1"), foo |-> Num(2)]) >>, Options(FALSE, FALSE, TRUE)),
   Request(EmbeddedName(ty), "delete", ty, "a1", << Str("i1") >>,
           Options(FALSE, FALSE, FALSE))}

\* SocketInterface.dispatch(eventName, request): a new promise, and one
\* emit of the request with the acknowledgement callback
Dispatch ==
  \E request \in DispatchRequests(ctype) :
    /\ Len(pending) < MaxPending
    /\ pending' = Append(pending,
                         Promise(IF request.parentType = "" THEN "modifyDocument"
                                 ELSE "modifyEmbeddedDocument", request))
    /\ last' = Last("dispatch", pending'[Len(pending')].event, request.action, request,
                    << >>, "pending", Undefined, FALSE, << >>, 1)
    /\ UNCHANGED << ctype, inst, store, source >>

\* the socket invokes the acknowledgement callback of the request at
\* position i with a response; a transport that repeats the acknowledgement
\* invokes it again
Acknowledge ==
  \E i \in 1..Len(pending) :
    \E response \in {Response(pending[i].request, pending[i].request.data)}
                       \cup {ErrorResponse(err) : err \in Errors} :
      /\ pending[i].acks < MaxAcks
      /\ pending' = [pending EXCEPT
                       ![i] = [settle(@, dispatch(response)) EXCEPT !.acks = @ + 1]]
      /\ last' = Last("ack", pending[i].event, pending[i].request.action,
                      pending[i].request, << response >>, pending'[i].settled,
                      pending'[i].value, FALSE, << >>, 0)
      /\ UNCHANGED << ctype, inst, store, source >>

InitDispatch ==
  /\ ctype \in Types
  /\ SetWorldNow(NoWorld)
  /\ pending = << >>
  /\ last = Last("init", "", "", NoRequest, << >>, "none", Undefined, FALSE, << >>, 0)

NextDispatch == Dispatch \/ Acknowledge

SpecDispatch == InitDispatch /\ [][NextDispatch]_vars

(***************************************************************************)
(* mergeObject on plain objects                                            *)
(***************************************************************************)
\* the values of a key that holds no object
Leaves == {Num(1), Num(2), Undefined}

\* the nested objects: empty, or with name, foo or both
InnerObjects ==
  {EmptyObj} \cup {"name" :> x : x \in Leaves} \cup {"foo" :> Num(1)}
    \cup {("name" :> Num(1)) @@ ("foo" :> Num(2))}

\* the objects with the key k holding one of the values, or without it
Entries(k, values) == {<< >>} \cup {k :> x : x \in values}

\* the plain objects: foo holding a leaf or nothing, token holding a nested
\* object, a number or nothing, and one of the given special entries or none
PlainObjects(special) ==
  {f @@ t @@ x :
     f \in Entries("foo", Leaves),
     t \in Entries("token", {Obj(i) : i \in InnerObjects} \cup {Num(1)}),
     x \in {<< >>} \cup special}

\* the objects passed as original: some with a dotted key
Originals == PlainObjects({"token.name" :> Num(2)})

\* the objects passed as other: some with a dotted key, some with a key of
\* prefix -= holding null or a number
Others ==
  PlainObjects({"token.name" :> Num(2), "-=foo" :> Null, "-=foo" :> Num(2)})

\* the options passed to mergeObject, the other options at their defaults
MergeOptions ==
  {MergeDefaults, [MergeDefaults EXCEPT !.overwrite = FALSE],
   [MergeDefaults EXCEPT !.insertKeys = FALSE],
   [MergeDefaults EXCEPT !.insertValues = FALSE]}

InitMerge ==
  /\ ctype = "Actor"
  /\ SetWorldNow(NoWorld)
  /\ pending = << >>
  /\ \E original \in Originals, other \in Others :
       last = Last("init", "", "", NoRequest, << Obj(original), Obj(other) >>, "none",
                   Undefined, FALSE, << >>, 0)

\* the page calls mergeObject(original, other, options) on the two objects;
\* the step keeps, after the two arguments, what the object passed as
\* original holds afterwards and whether it is the object returned
MergeObjects ==
  \E opts \in MergeOptions :
    /\ last.step = "init"
    /\ last' = [last EXCEPT
                  !.step = "mergeObject",
                  !.request = opts,
                  !.outcome = IF mergeObject(last.result[1].v, last.result[2].v, opts, 0).threw
                              THEN "rejected" ELSE "resolved",
                  !.value = Obj(mergeObject(last.result[1].v, last.result[2].v, opts, 0).obj),
                  !.result = @ \o << Obj(originalAfter(last.result[1].v, last.result[2].v,
                                                       opts)),
                                     Bool(returnsOriginal(last.result[1].v, opts)) >>]
    /\ UNCHANGED << ctype, inst, store, source, pending >>

NextMerge == MergeObjects

SpecMerge == InitMerge /\ [][NextMerge]_vars

(***************************************************************************)
(* hasProperty on plain objects                                            *)
(***************************************************************************)
\* the objects asked: foo holding a primitive, truthy or falsy, or nothing,
\* and token holding a nested object, a number or nothing
PathObjects ==
  {f @@ t :
     f \in Entries("foo", {Num(0), Num(1), Str(""), Str("x"), Bool(FALSE), Bool(TRUE),
                           Null, Undefined}),
     t \in Entries("token", {Obj(i) : i \in InnerObjects} \cup {Num(1)})}

\* the keys asked: plain, dotted, and empty
PathKeys == {"", "foo", "token", "foo.name", "token.name", "token.foo", "token.name.foo"}

InitPath ==
  /\ ctype = "Actor"
  /\ SetWorldNow(NoWorld)
  /\ pending = << >>
  /\ \E object \in PathObjects :
       last = Last("init", "", "", NoRequest, << Obj(object) >>, "none",
                   Undefined, FALSE, << >>, 0)

\* the page calls hasProperty(object, key)
AskHasProperty ==
  \E key \in PathKeys :
    /\ last' = [last EXCEPT
                  !.step = "hasProperty",
                  !.request = key,
                  !.outcome = IF hasProperty(last.result[1].v, key).threw
                              THEN "rejected" ELSE "resolved",
                  !.value = IF hasProperty(last.result[1].v, key).threw THEN Undefined
                            ELSE Bool(hasProperty(last.result[1].v, key).value)]
    /\ UNCHANGED << ctype, inst, store, source, pending >>

NextPath == AskHasProperty

SpecPath == InitPath /\ [][NextPath]_vars

(***************************************************************************)
(* diffObject of an object against itself                                  *)
(***************************************************************************)
\* the plain data: foo holding a leaf or nothing, token holding a nested
\* object, empty or not, or nothing, and items holding an array, empty or
\* not, or nothing
DataObjects ==
  {f @@ t @@ a :
     f \in Entries("foo", Leaves),
     t \in Entries("token", {Obj(i) : i \in InnerObjects}),
     a \in Entries("items", {Arr(<< >>), Arr(<< Child("i1", 1) >>)})}

InitSelfDiff ==
  /\ ctype = "Actor"
  /\ SetWorldNow(NoWorld)
  /\ pending = << >>
  /\ \E x \in DataObjects :
       last = Last("init", "", "", NoRequest, << Obj(x) >>, "none",
                   Undefined, FALSE, << >>, 0)

\* the page calls diffObject(X, X)
DiffSelf ==
  /\ last.step = "init"
  /\ last' = [last EXCEPT
                !.step = "diffObject",
                !.outcome = IF diffObject(last.result[1].v, last.result[1].v).threw
                            THEN "rejected" ELSE "resolved",
                !.value = IF diffObject(last.result[1].v, last.result[1].v).threw
                          THEN Undefined
                          ELSE Obj(diffObject(last.result[1].v, last.result[1].v).obj)]
  /\ UNCHANGED << ctype, inst, store, source, pending >>

NextSelfDiff == DiffSelf

SpecSelfDiff == InitSelfDiff /\ [][NextSelfDiff]_vars

(***************************************************************************)
(* The start of a session: the world snapshot and the socket listeners     *)
(***************************************************************************)
\* the transports Game.connect asks for: the development build polls
\* (["polling", "websocket"] with upgrade: false), every other build uses
\* the websocket
Transports == {"polling", "websocket"}

\* a packet on its way from the server to the page: the acknowledgement of
\* the "world" request with the snapshot, or a pushed modifyDocument message
Packet(kind, message) == [message |-> message, kind |-> kind]

\* the session once Game.create has connected and emitted "world": the
\* packets in flight, whether the server has produced the snapshot, whether
\* the promise of getWorldData is resolved, whether openSockets has
\* registered the listeners, and how many pushed messages found a listener
\* and how many found none
Session(transport) ==
  [transport |-> transport, channel |-> << >>, snapshot |-> FALSE, resolved |-> FALSE,
   listening |-> FALSE, handled |-> 0, dropped |-> 0]

\* the snapshot the server answers "world" with
WorldData(ty) == << Record(ty, "a1", << Child("i1", 1) >>) >>

\* the socket hands one packet to the page: the acknowledgement resolves the
\* promise of getWorldData, whose continuation waits for the running task
\* to end; a pushed message goes to the modifyDocument listener when
\* openSockets has registered it and is lost when not
onPacket(r, ty, p) ==
  IF p.kind = "world" THEN [r EXCEPT !.session.resolved = TRUE]
  ELSE IF r.session.listening
  THEN [r EXCEPT !.w = Collect(Handle(r.w, ty, "modifyDocument", p.message.request.action,
                                      p.message.request, p.message.result).w),
                 !.session.handled = @ + 1]
  ELSE [r EXCEPT !.session.dropped = @ + 1]

RECURSIVE receive(_, _, _)
\* the packets of one payload are handed over one after the other
receive(r, ty, packets) ==
  IF packets = << >> THEN r
  ELSE receive(onPacket(r, ty, Head(packets)), ty, Tail(packets))

\* the continuations that run when the task ends: Game.create returns the
\* Game, init's callback calls game.initialize(), and setupGame runs
\* initializeEntities() and then openSockets()
continue(r, ty) ==
  IF r.session.resolved /\ ~r.session.listening
  THEN [r EXCEPT !.w = Initialize(WorldData(ty), ty, Len(WorldData(ty))),
                 !.session.listening = TRUE]
  ELSE r

InitSession ==
  /\ ctype \in Types
  /\ SetWorldNow(NoWorld)
  /\ \E transport \in Transports : pending = Session(transport)
  /\ last = Last("init", "", "", NoRequest, << >>, "none", Undefined, FALSE, << >>, 0)

\* the server produces the snapshot and acknowledges "world" with it
ServerSnapshot ==
  /\ ~pending.snapshot
  /\ pending' = [pending EXCEPT !.snapshot = TRUE,
                                !.channel = Append(@, Packet("world", NoRequest))]
  /\ last' = Last("snapshot", "world", "", NoRequest, << >>, "none", Undefined, FALSE,
                  << >>, 0)
  /\ UNCHANGED << ctype, inst, store, source >>

\* the server pushes a notification of an update made after the snapshot
ServerPush ==
  \E m \in UpdateMessages(ctype, {"a1"}) :
    /\ pending.snapshot
    /\ Len(pending.channel) <= MaxPending
    /\ pending.handled + pending.dropped + Len(pending.channel) <= MaxPending + 1
    /\ pending' = [pending EXCEPT !.channel = Append(@, Packet("notify", m))]
    /\ last' = Last("push", "modifyDocument", "update", m.request, m.result, "none",
                    Undefined, FALSE, << >>, 0)
    /\ UNCHANGED << ctype, inst, store, source >>

\* one task of the page receives a payload: one packet over the websocket,
\* one or more over polling, whose response carries every packet the server
\* had written; the continuations run when the task ends
ReceivePayload ==
  \E n \in 1..Len(pending.channel) :
    /\ pending.transport = "websocket" => n = 1
    /\ SetWorld(continue(receive([w |-> World,
                                   session |-> [pending EXCEPT
                                                  !.channel = SubSeq(@, n + 1, Len(@))]],
                                  ctype, SubSeq(pending.channel, 1, n)),
                          ctype).w)
    /\ pending' = continue(receive([w |-> World,
                                    session |-> [pending EXCEPT
                                                   !.channel = SubSeq(@, n + 1, Len(@))]],
                                   ctype, SubSeq(pending.channel, 1, n)),
                           ctype).session
    /\ last' = Last("task", "", "", NoRequest, << >>, "none", Undefined, FALSE, << >>, n)
    /\ UNCHANGED ctype

NextSession == ServerSnapshot \/ ServerPush \/ ReceivePayload

SpecSession == InitSession /\ [][NextSession]_vars

(***************************************************************************)
(* The Scenes of a world: which one is active and which one is viewed      *)
(***************************************************************************)
\* a Scene record as the server holds it, active or not
SceneRecord(id, active) ==
  Obj(Put(Record("Scene", id, << >>).v, "active", Bool(active)))
NewScene(active) == Obj(Put(NewRecord("Scene", << >>).v, "active", Bool(active)))

\* the Scene arrays of the world data: none, one or two Scenes, and never
\* two of them active
SceneSnapshots ==
  {<< >>}
    \cup {<< SceneRecord("a1", b) >> : b \in BOOLEAN}
    \cup {<< SceneRecord("a1", b[1]), SceneRecord("a2", b[2]) >> :
            b \in {<< FALSE, FALSE >>, << TRUE, FALSE >>, << FALSE, TRUE >>}}

\* the changes of the active flag an update carries
ActiveRecords ==
  {Obj(("_id" :> Str(x)) @@ ("active" :> v)) :
     x \in Ids, v \in {Bool(TRUE), Bool(FALSE), Num(1)}}
ActiveBatches ==
  {<< r >> : r \in ActiveRecords}
    \cup {<< r, q >> : r \in {Obj([_id |-> Str("a1"), active |-> Bool(TRUE)])},
                       q \in {a \in ActiveRecords : IdOf(a.v) = "a2"}}

\* the creations of one Scene the server pushes, kept or temporary
SceneCreateMessages ==
  {Response(Request("Scene", "create", "", "", << NewScene(b) >>,
                    Options(t, FALSE, FALSE)),
            << SceneRecord(x, b) >>) : b \in BOOLEAN, t \in BOOLEAN, x \in Ids}

InitScene ==
  /\ ctype = "Scene"
  /\ \E data \in SceneSnapshots :
       LET w == Initialize(data, "Scene", Len(data))
       IN /\ inst = w.inst
          /\ store = w.store
          /\ source = w.source
  /\ pending = << >>
  /\ last = Last("init", "", "", NoRequest, << >>, "none", Undefined, FALSE, << >>, 0)

NextScene ==
  \/ CallCreate({In(Arr(<< NewScene(TRUE) >>), Options(t, FALSE, FALSE)) :
                   t \in BOOLEAN})
  \/ CallUpdate({In(<< r >>, Options(FALSE, FALSE, TRUE)) :
                   r \in {a \in ActiveRecords : a.v["active"].t = "boolean"}})
  \/ Respond
  \/ RespondError
  \/ NotifyCreate({m \in SceneCreateMessages :
                     m.request.options.temporary
                       \/ ~StoreHas(store, IdOf(m.result[1].v))})
  \/ NotifyUpdate({Response(Request("Scene", "update", "", "", d,
                                    Options(FALSE, FALSE, TRUE)), d) :
                     d \in ActiveBatches})

SpecScene == InitScene /\ [][NextScene]_vars

(***************************************************************************)
(* One update result handled twice: as the response to the update of this  *)
(* client, and as the notification the server pushes of it                 *)
(***************************************************************************)
\* a record of the snapshot: a Scene has a thumbnail, an Actor one item
TwiceRecord(ty, id) ==
  IF ty = "Scene"
  THEN Obj(Record(ty, id, << >>).v @@ [thumb |-> Str("old.png")])
  ELSE Record(ty, id, << Child("i1", 1) >>)

\* the changes of one entity the results carry
TwiceFields(ty) ==
  {[foo |-> Num(2)], [permission |-> ObserverMap], [name |-> Str("")],
   ("-=foo" :> Null), ("token.name" :> Str("Other"))}
    \cup (IF ty = "Actor" THEN {[items |-> Arr(<< Child("i2", 2) >>)]}
          ELSE {[active |-> Bool(TRUE)], [thumb |-> Str("new.png")],
                [thumb |-> Str("old.png"), foo |-> Num(3)]})
TwiceResults(ty) ==
  {<< Obj(Put(f, "_id", Str("a1"))) >> : f \in TwiceFields(ty)}
    \cup {<< Obj([_id |-> Str("a2"), foo |-> Num(2)]),
             Obj(("_id" :> Str("a1")) @@ f) >> :
            f \in {[foo |-> Num(3)], [thumb |-> Str("new.png")]}}
    \cup {<< Obj([_id |-> Str("a2"), active |-> Bool(TRUE)]) >>,
          << Obj([_id |-> Str("a3"), foo |-> Num(2)]) >>}

InitTwice ==
  /\ ctype \in Types
  /\ LET w == Initialize(<< TwiceRecord(ctype, "a1"), TwiceRecord(ctype, "a2") >>,
                         ctype, 2)
     IN /\ inst = w.inst
        /\ store = w.store
        /\ source = w.source
  /\ pending = << >>
  /\ last = Last("init", "", "", NoRequest, << >>, "none", Undefined, FALSE, << >>, 0)

\* time passes
Tick ==
  /\ last.now < MaxClock
  /\ last' = [last EXCEPT !.now = @ + 1]
  /\ UNCHANGED << ctype, inst, store, source, pending >>

\* the response to an update of this client is handled by _handleUpdate
HandleResponse(h, request, result) ==
  /\ last.step # "response"
  /\ SetWorld(Collect(h.w))
  /\ last' = [Last("response", "modifyDocument", "update", request, result,
                   IF h.threw THEN "rejected" ELSE "resolved", Undefined, TRUE,
                   h.trace, 0) EXCEPT !.now = last.now]
  /\ UNCHANGED << ctype, pending >>

\* the notification of the update just answered reaches the listener, which
\* hands it to _handleUpdate
HandleNotification(h) ==
  /\ last.step = "response"
  /\ SetWorld(Collect(h.w))
  /\ last' = [Last("notify", "modifyDocument", "update", last.request, last.result,
                   listened(h).outcome, Undefined, TRUE, h.trace, 0)
                EXCEPT !.stateUpdate = listened(h).stateUpdate, !.now = last.now]
  /\ UNCHANGED << ctype, pending >>

NextTwice ==
  \/ Tick
  \/ \E result \in TwiceResults(ctype) :
       HandleResponse(Handle(World, ctype, "modifyDocument", "update",
                             Request(ctype, "update", "", "", result,
                                     Options(FALSE, FALSE, TRUE)), result),
                      Request(ctype, "update", "", "", result,
                              Options(FALSE, FALSE, TRUE)), result)
  \/ HandleNotification(Handle(World, ctype, "modifyDocument", "update",
                               last.request, last.result))

SpecTwice == InitTwice /\ [][NextTwice]_vars

(***************************************************************************)
(* Updates of embedded children among other children, other arrays and     *)
(* other entities                                                          *)
(***************************************************************************)
\* the record of a parent with two children; a Scene has a wall as well,
\* which has the id of its first token
FrameRecord(ty, id) ==
  IF ty = "Scene"
  THEN Obj(Record(ty, id, << Child("i1", 1), Child("i2", 1) >>).v
             @@ [walls |-> Arr(<< Child("i1", 1) >>)])
  ELSE Record(ty, id, << Child("i1", 1), Child("i2", 1) >>)

\* the results of the updates: of one child, of both, and of a child that
\* no parent has
FrameUpdates ==
  {<< Obj([_id |-> Str(c), foo |-> Num(2)]) >> : c \in {"i1", "i2", "i3"}}
    \cup {<< Obj([_id |-> Str("i2"), foo |-> Num(2)]),
             Obj([_id |-> Str("i1"), foo |-> Num(2)]) >>,
          << Obj([_id |-> Str("i3"), foo |-> Num(2)]),
             Obj([_id |-> Str("i2"), name |-> Str("")]) >>}
FrameTypes(ty) == IF ty = "Scene" THEN {"Token", "Wall"} ELSE {"OwnedItem"}
\* the messages the server pushes about the children: the updates, for a
\* parent of the collection and for one it does not hold, and one deletion
FrameMessages(ty) ==
  {Response(Request(n, "update", ty, x, d, Options(FALSE, FALSE, TRUE)), d) :
     n \in FrameTypes(ty), x \in {"a1", "a3"}, d \in FrameUpdates}
    \cup {Response(Request(EmbeddedName(ty), "delete", ty, "a1", << Str("i1") >>,
                           Options(FALSE, FALSE, FALSE)), << Str("i1") >>)}

InitFrame ==
  /\ ctype \in Types
  /\ LET w == Initialize(<< FrameRecord(ctype, "a1"), FrameRecord(ctype, "a2") >>,
                         ctype, 2)
     IN /\ inst = w.inst
        /\ store = w.store
        /\ source = w.source
  /\ pending = << >>
  /\ last = Last("init", "", "", NoRequest, << >>, "none", Undefined, FALSE, << >>, 0)

NextFrame ==
  \/ CallUpdateEmbedded({EmbeddedIn("a1", EmbeddedName(ctype), d,
                                    Options(FALSE, FALSE, TRUE)) :
                           d \in {u \in FrameUpdates : Len(u) = 2}})
  \/ Respond
  \/ RespondError
  \/ NotifyEmbedded(FrameMessages(ctype))
  \/ NotifyUpdate({Response(Request(ctype, "update", "", "", << r >>,
                                    Options(FALSE, FALSE, TRUE)), << r >>) :
                     r \in {Obj([_id |-> Str("a1"),
                                 items |-> Arr(<< Child("i1", 1), Child("i2", 1) >>)])}})

SpecFrame == InitFrame /\ [][NextFrame]_vars

(***************************************************************************)
(* Permissions: Entity#hasPerm, Entity#permission, Entity#limited          *)
(***************************************************************************)
USER_ROLES == [NONE |-> 0, PLAYER |-> 1, TRUSTED |-> 2, ASSISTANT |-> 3, GAMEMASTER |-> 4]
ENTITY_PERMISSIONS == [NONE |-> 0, LIMITED |-> 1, OBSERVER |-> 2, OWNER |-> 3]

\* User#hasRole(role) and User#isGM of the user [id, role]
hasRole(user, role) == USER_ROLES[role] # 0 /\ user.role >= USER_ROLES[role]
isGM(user) == hasRole(user, "ASSISTANT")

\* a hasPerm without the shortcut for game masters
hasPermByMap(data, user, permission, exact) ==
  IF ~Truthy(Get(data, "permission")) THEN FALSE
  ELSE IF Get(data["permission"].v, user.id).t = "number"
  THEN IF exact THEN data["permission"].v[user.id].v = ENTITY_PERMISSIONS[permission]
       ELSE data["permission"].v[user.id].v >= ENTITY_PERMISSIONS[permission]
  ELSE /\ Get(data["permission"].v, "default").t = "number"
       /\ IF exact
          THEN data["permission"].v["default"].v = ENTITY_PERMISSIONS[permission]
          ELSE data["permission"].v["default"].v >= ENTITY_PERMISSIONS[permission]

\* a hasPerm that takes the user's own entry only when it is truthy
hasPermTruthy(data, user, permission, exact) ==
  IF ~Truthy(Get(data, "permission")) THEN isGM(user)
  ELSE IF ~exact /\ isGM(user) THEN TRUE
  ELSE IF Truthy(Get(data["permission"].v, user.id))
  THEN /\ data["permission"].v[user.id].t = "number"
       /\ IF exact
          THEN data["permission"].v[user.id].v = ENTITY_PERMISSIONS[permission]
          ELSE data["permission"].v[user.id].v >= ENTITY_PERMISSIONS[permission]
  ELSE /\ Get(data["permission"].v, "default").t = "number"
       /\ IF exact
          THEN data["permission"].v["default"].v = ENTITY_PERMISSIONS[permission]
          ELSE data["permission"].v["default"].v >= ENTITY_PERMISSIONS[permission]

\* the level hasPerm resolves for the user in the permission map m:
\* Number.isInteger(m[user._id]) ? m[user._id] : m["default"]
permissionLevel(m, user) ==
  IF Get(m, user.id).t = "number" THEN Get(m, user.id) ELSE Get(m, "default")

\* entity.hasPerm(user, permission, exact) on the data of the entity
hasPerm(data, user, permission, exact) ==
  IF ~Truthy(Get(data, "permission")) THEN isGM(user)
  ELSE IF exact
  THEN permissionLevel(data["permission"].v, user) = Num(ENTITY_PERMISSIONS[permission])
  ELSE IF isGM(user) THEN TRUE
  ELSE /\ permissionLevel(data["permission"].v, user).t = "number"
       /\ permissionLevel(data["permission"].v, user).v >= ENTITY_PERMISSIONS[permission]

\* the getter entity.permission for the acting user: [threw, value]; reading
\* an entry of a missing permission map throws
permission(data, user) ==
  IF isGM(user) THEN [threw |-> FALSE, value |-> Num(ENTITY_PERMISSIONS["OWNER"])]
  ELSE IF Get(data, "permission").t # "Object" THEN [threw |-> TRUE, value |-> Undefined]
  ELSE [threw |-> FALSE,
        value |-> IF Truthy(Get(data["permission"].v, user.id))
                  THEN Get(data["permission"].v, user.id)
                  ELSE Get(data["permission"].v, "default")]

\* a limited that asks hasPerm for the exact level whoever the user is
limitedByLevel(data, user) == hasPerm(data, user, "LIMITED", TRUE)

\* the getter entity.limited for the acting user
limited(data, user) ==
  IF isGM(user) THEN FALSE ELSE hasPerm(data, user, "LIMITED", TRUE)

\* the getter item.limited of an Item with data itemData: an owned item
\* answers with the limited of its actor
itemLimited(itemData, owned, actorData, user) ==
  IF owned THEN limited(actorData, user) ELSE limited(itemData, user)

\* the acting users: a game master, an assistant, and two players
GameUsers ==
  {[id |-> "gm", role |-> 4], [id |-> "as", role |-> 3], [id |-> "u1", role |-> 1],
   [id |-> "u2", role |-> 2]}

\* the permission maps of an entity: a default or none, an entry of the
\* player u1 of every level, of another type, or none, and an entry of the
\* game master or none
PermissionMaps ==
  {Obj(d @@ u @@ g) :
     d \in Entries("default", {Num(n) : n \in 0..3}),
     u \in Entries("u1", {Num(n) : n \in 0..3} \cup {Str("x")}),
     g \in Entries("gm", {Num(1)})}

\* the data of the one entity: with a permission map, and without any
PermissionData(ty) ==
  {Put(Record(ty, "a1", << Child("i1", 1) >>).v, "permission", m) : m \in PermissionMaps}
    \cup {Del(Record(ty, "a1", << Child("i1", 1) >>).v, "permission")}

InitPerm ==
  /\ ctype \in Types
  /\ \E data \in PermissionData(ctype) :
       SetWorldNow(Initialize(<< Obj(data) >>, ctype, 1))
  /\ pending = << >>
  /\ last = Last("init", "", "", NoRequest, << >>, "none", Undefined, FALSE, << >>, 0)

\* what was asked in the step taken last
Asked(user, level, exact, owned) ==
  [user |-> user, level |-> level, exact |-> exact, owned |-> owned]

\* the page asks entity.hasPerm(user, level, exact) of the entity a1
AskHasPerm ==
  \E user \in GameUsers, level \in DOMAIN ENTITY_PERMISSIONS, exact \in BOOLEAN :
    /\ last' = Last("hasPerm", "", "", NoRequest, << Asked(user, level, exact, FALSE) >>,
                    "resolved",
                    Bool(hasPerm(inst[StoreGet(store, "a1")].data, user, level, exact)),
                    FALSE, << >>, 0)
    /\ UNCHANGED << ctype, inst, store, source, pending >>

\* the page reads entity.permission of the entity a1 as the acting user
AskPermission ==
  \E user \in GameUsers :
    /\ last' = Last("permission", "", "", NoRequest, << Asked(user, "", FALSE, FALSE) >>,
                    IF permission(inst[StoreGet(store, "a1")].data, user).threw
                    THEN "rejected" ELSE "resolved",
                    permission(inst[StoreGet(store, "a1")].data, user).value,
                    FALSE, << >>, 0)
    /\ UNCHANGED << ctype, inst, store, source, pending >>

\* the page reads the limited of the entity a1, or of its owned item i1
AskLimited ==
  \E user \in GameUsers, owned \in {o \in BOOLEAN : o => ctype = "Actor"} :
    /\ last' = Last("limited", "", "", NoRequest, << Asked(user, "", FALSE, owned) >>,
                    "resolved",
                    Bool(IF owned
                         THEN itemLimited(inst[StoreGet(store, "a1")].data["items"].v[1].v,
                                          TRUE, inst[StoreGet(store, "a1")].data, user)
                         ELSE limited(inst[StoreGet(store, "a1")].data, user)),
                    FALSE, << >>, 0)
    /\ UNCHANGED << ctype, inst, store, source, pending >>

NextPerm == AskHasPerm \/ AskPermission \/ AskLimited

SpecPerm == InitPerm /\ [][NextPerm]_vars

(***************************************************************************)
(* The set-up of the collection from snapshots with malformed records      *)
(***************************************************************************)
\* the records a snapshot may hold for the id x: well-formed with and
\* without children, with an empty name, and without the raw array of children,
\* on which Actor#prepareEmbeddedEntities throws
BootRecords(ty, x) ==
  {Record(ty, x, << >>), Record(ty, x, << Child("i1", 1) >>),
   Obj(Put(Record(ty, x, << >>).v, "name", Str(""))),
   Obj(Put(Record(ty, x, << >>).v, "foo", Num(2))),
   Obj(Del(Record(ty, x, << >>).v, ArrayName(ty)))}

\* the snapshots of one and two records with distinct ids
BootSnapshots(ty) ==
  {<< r >> : r \in BootRecords(ty, "a1") \cup BootRecords(ty, "a2")}
    \cup {<< r1, r2 >> : r1 \in BootRecords(ty, "a1"), r2 \in BootRecords(ty, "a2")}
    \cup {<< r2, r1 >> : r1 \in BootRecords(ty, "a1"), r2 \in BootRecords(ty, "a2")}

\* the game builds the collection of the class from a snapshot
Boot(snapshots) ==
  \E data \in snapshots :
    /\ SetWorld(Initialize(data, ctype, Len(data)))
    /\ pending' = << >>
    /\ last' = Last("boot", "", "", NoRequest, data, "resolved", Undefined, FALSE,
                    << >>, 0)
    /\ UNCHANGED ctype

InitBoot ==
  /\ ctype \in Classes
  /\ SetWorldNow(NoWorld)
  /\ pending = << >>
  /\ last = Last("init", "", "", NoRequest, << >>, "none", Undefined, FALSE, << >>, 0)

NextBoot == Boot(BootSnapshots(ctype))

SpecBoot == InitBoot /\ [][NextBoot]_vars

(***************************************************************************)
(* The properties                                                          *)
(***************************************************************************)
\* a step in which a handler of the top-level action ran on a response or a
\* pushed message
HandledStep(l, action) ==
  /\ l.step \in {"response", "notify"}
  /\ l.event = "modifyDocument"
  /\ l.action = action
  /\ l.handler

\* C1: while a request emitted by create, update, delete or one of their
\* embedded variants is in flight and no response or notification has been
\* handled since its emission, the data of every entity, the store and the
\* raw source array are exactly what they were before the call.
C1_NoOptimisticMutation ==
  \A i \in 1..Len(pending) : pending[i].clean => pending[i].snap = World

\* C1: a request is in flight, nothing has been handled since, and another
\* call has run in the meantime
C1_InFlightUntouched ==
  /\ Len(pending) = 1
  /\ pending[1].clean
  /\ pending[1].request.action = "delete"
  /\ last.step = "call"
  /\ last.emitted = 0

\* C2: when the server answers a request with an error payload, the promise
\* of the call rejects with that error, no response handler runs, and the
\* data, the store and the raw source array stay as they were before the call.
C2_ErrorRejects ==
  [][\A i \in 1..Len(pending) : \A err \in Errors :
       Deliver(i, ErrorResponse(err)) =>
         /\ last'.outcome = "rejected"
         /\ last'.value = Obj([message |-> err.v["message"]])
         /\ ~last'.handler
         /\ last'.trace = << >>
         /\ World' = World
         /\ (pending[i].clean => World' = pending[i].snap)]_vars

\* C2: the server has answered an embedded update with an error
C2_Rejected ==
  /\ last.step = "response"
  /\ last.event = "modifyEmbeddedDocument"
  /\ last.action = "update"
  /\ last.outcome = "rejected"
  /\ last.value = Obj([message |-> Str("denied")])
  /\ ~last.handler

\* C3: starting from a snapshot with unique ids, after any sequence of
\* handled create and delete responses and notifications, a create delivered
\* both as response and as push included, the ids of the records of the raw
\* source array are exactly the keys of the store, each exactly once.
C3_SourceMatchesStore ==
  LET ids == [i \in 1..Len(source) |-> IdOf(inst[source[i]].data)]
  IN /\ {ids[i] : i \in 1..Len(source)} = {store[k].id : k \in 1..Len(store)}
     /\ \A i, j \in 1..Len(source) : ids[i] = ids[j] => i = j

\* C3: a create has been handled for an id the store already held
C3_CreateTwice ==
  /\ HandledStep(last, "create")
  /\ last.outcome \in {"resolved", "handled"}
  /\ \E i, j \in 1..Len(source) :
       /\ i # j
       /\ IdOf(inst[source[i]].data) = IdOf(inst[source[j]].data)

\* C4: a handled update for an id X of the store leaves collection.get(X)
\* the same instance, with its data still the element of the raw source
\* array and reflecting the fields of the record; no instance is constructed.
C4_UpdateKeepsInstance ==
  [][HandledStep(last', "update") =>
       \A i \in 1..Len(last'.result) :
         ("_id" \in DOMAIN last'.result[i].v /\ StoreHas(store, IdOf(last'.result[i].v))) =>
           /\ store' = store
           /\ source' = source
           /\ DOMAIN inst' = DOMAIN inst
           /\ \A k \in DOMAIN last'.result[i].v \ {ArrayName(ctype)} :
                inst'[StoreGet(store, IdOf(last'.result[i].v))].data[k]
                  = last'.result[i].v[k]
           /\ \A j \in DOMAIN last'.result[i].v \cap {ArrayName(ctype)} :
                [n \in 1..Len(last'.result[i].v[j].v) |-> IdOf(last'.result[i].v[j].v[n].v)]
                  = [n \in 1..Len(inst'[StoreGet(store, IdOf(last'.result[i].v))].data[j].v) |->
                       IdOf(inst'[StoreGet(store, IdOf(last'.result[i].v))].data[j].v[n].v)]]_vars

\* C4: a pushed update of a2 has been merged into the instance the store and
\* the raw source array held before
C4_Merged ==
  /\ HandledStep(last, "update")
  /\ last.step = "notify"
  /\ last.outcome = "handled"
  /\ StoreHas(store, "a2")
  /\ IdOf(last.result[1].v) = "a2"
  /\ inst[StoreGet(store, "a2")].data["foo"] = Num(2)
  /\ \E i \in 1..Len(source) : source[i] = StoreGet(store, "a2")

\* C5: Entity.update with the default diff, on a batch in which every field
\* of every element equals the current data of its target, emits no request
\* and resolves to an empty result.
C5_EchoUpdateIsNoop ==
  [][\A c \in EchoCalls(World, ctype) :
       CallStep(update(World, ctype, c.data, c.options), "modifyDocument", "update") =>
         /\ last'.emitted = 0
         /\ last'.outcome = "resolved"
         /\ last'.value = Arr(<< >>)]_vars

\* C6: after a handled update whose record carries a permission map P, the
\* permission map of the entity is P exactly: a key P lacks is gone.
C6_PermissionReplaced ==
  (HandledStep(last, "update") /\ last.outcome \in {"resolved", "handled"}) =>
     \A i \in 1..Len(last.result) :
       ("permission" \in DOMAIN last.result[i].v /\ StoreHas(store, IdOf(last.result[i].v))) =>
          inst[StoreGet(store, IdOf(last.result[i].v))].data["permission"]
            = last.result[i].v["permission"]

\* C6: an update carrying a permission map without the key u1 has been
\* handled on an entity whose map had it
C6_KeyDropped ==
  /\ HandledStep(last, "update")
  /\ last.outcome \in {"resolved", "handled"}
  /\ Len(last.result) = 1
  /\ "permission" \in DOMAIN last.result[1].v
  /\ "u1" \notin DOMAIN last.result[1].v["permission"].v
  /\ "u1" \notin DOMAIN inst[StoreGet(store, IdOf(last.result[1].v))].data["permission"].v

\* C7: a successful delete of an entity X of the store, without deleteAll,
\* leaves collection.get(X) null, the store one entity smaller and every
\* other entity in it.
C7_DeleteRemovesOne ==
  [][(/\ HandledStep(last', "delete")
      /\ last'.outcome \in {"resolved", "handled"}
      /\ ~last'.request.options.deleteAll
      /\ Len(last'.result) = 1
      /\ StoreHas(store, last'.result[1].v)) =>
       /\ StoreGet(store', last'.result[1].v) = 0
       /\ Len(store') = Len(store) - 1
       /\ \A y \in Ids \ {last'.result[1].v} :
            /\ StoreGet(store', y) = StoreGet(store, y)
            /\ StoreHas(store, y) => inst'[StoreGet(store, y)] = inst[StoreGet(store, y)]]_vars

\* C7: a delete of one entity has resolved and another entity is left
C7_Deleted ==
  /\ HandledStep(last, "delete")
  /\ last.step = "response"
  /\ last.outcome = "resolved"
  /\ ~last.request.options.deleteAll
  /\ Len(last.result) = 1
  /\ ~StoreHas(store, last.result[1].v)
  /\ Len(store) = 1

\* C8: a handled delete whose options carry deleteAll empties the store and
\* the raw source array whatever its result list holds, and runs the
\* on-deleted hook once for every entity that was in the store.
C8_DeleteAllEmpties ==
  [][(HandledStep(last', "delete") /\ last'.request.options.deleteAll) =>
       /\ store' = << >>
       /\ source' = << >>
       /\ \A k \in 1..Len(store) :
            Cardinality({n \in 1..Len(last'.trace) :
                           last'.trace[n] = Ev("_onDelete", store[k].id)}) = 1
       /\ Cardinality({n \in 1..Len(last'.trace) : last'.trace[n].h = "_onDelete"})
            = Len(store)]_vars

\* C8: a deleteAll with an empty result list has been handled on a store of
\* two entities
C8_DeletedAll ==
  /\ HandledStep(last, "delete")
  /\ last.request.options.deleteAll
  /\ last.result = << >>
  /\ Cardinality({n \in 1..Len(last.trace) : last.trace[n].h = "_onDelete"}) = 2
  /\ store = << >>

\* C9: after an Actor has been constructed, and after each handled OwnedItem
\* create, update or delete, the cached items collection of the actor is
\* non-null and its keys are the ids of the raw items array.
C9_ItemsCacheInSync ==
  ctype = "Actor" =>
    \A r \in DOMAIN inst :
      /\ ~inst[r].items.null
      /\ inst[r].items.keys
           = [n \in 1..Len(inst[r].data["items"].v) |-> IdOf(inst[r].data["items"].v[n].v)]

\* C9: an OwnedItem create has been handled on an actor
C9_ItemCreated ==
  /\ ctype = "Actor"
  /\ last.step \in {"response", "notify"}
  /\ last.event = "modifyEmbeddedDocument"
  /\ last.action = "create"
  /\ last.handler
  /\ last.outcome \in {"resolved", "handled"}
  /\ Len(last.trace) > 0

\* C10: a handled embedded create, update or delete batch that touches k >= 1
\* children of a parent runs the batch hook _onModifyEmbeddedEntity exactly
\* once and the per-child hook of the action once for each touched child,
\* every per-child hook before the batch hook.
C10_BatchHookOnce ==
  [][(/\ last'.step \in {"response", "notify"}
      /\ last'.event = "modifyEmbeddedDocument"
      /\ last'.handler
      /\ ~last'.request.options.temporary
      /\ last'.request.type = EmbeddedName(ctype)
      /\ StoreHas(store, last'.request.parentId)) =>
       LET held == Get(inst[StoreGet(store, last'.request.parentId)].data, ArrayName(ctype))
           ids == IF held.t = "Array" THEN {IdOf(held.v[n].v) : n \in 1..Len(held.v)}
                  ELSE {}
           k == IF last'.action = "create" THEN Len(last'.result)
                ELSE IF last'.action = "update"
                THEN Cardinality({x \in ids : \E n \in 1..Len(last'.result) :
                                                IdOf(last'.result[n].v) = x})
                ELSE Cardinality({x \in ids : \E n \in 1..Len(last'.result) :
                                                last'.result[n].v = x})
           hook == IF last'.action = "create" THEN "_onCreateEmbeddedEntity"
                   ELSE IF last'.action = "update" THEN "_onUpdateEmbeddedEntity"
                   ELSE "_onDeleteEmbeddedEntity"
           batch == {n \in 1..Len(last'.trace) :
                       last'.trace[n].h = "_onModifyEmbeddedEntity"}
           child == {n \in 1..Len(last'.trace) : last'.trace[n].h = hook}
       IN k >= 1 =>
            /\ Cardinality(batch) = 1
            /\ Cardinality(child) = k
            /\ \A c \in child : \A b \in batch : c < b]_vars

\* C10: an embedded create of one child has run its per-child hook and then
\* the batch hook
C10_HooksRan ==
  /\ last.step \in {"response", "notify"}
  /\ last.event = "modifyEmbeddedDocument"
  /\ last.action = "create"
  /\ Len(last.result) = 1
  /\ \E n \in 1..Len(last.trace) : last.trace[n].h = "_onCreateEmbeddedEntity"
  /\ \E n \in 1..Len(last.trace) : last.trace[n].h = "_onModifyEmbeddedEntity"

\* the number of entries of a log of hook calls that are the call h on id
Calls(trace, h, id) == Cardinality({n \in 1..Len(trace) : trace[n] = Ev(h, id)})

\* C11: after an embedded update batch that changes at least one child of a
\* parent of the collection is handled, the prepareData of the parent has run
\* exactly once for the batch and the render of the parent exactly once,
\* whatever the class of the parent.
C11_ParentPreparedOnce ==
  [][(/\ last'.step \in {"response", "notify"}
      /\ last'.event = "modifyEmbeddedDocument"
      /\ last'.action = "update"
      /\ last'.handler
      /\ last'.request.type = EmbeddedName(ctype)
      /\ StoreHas(store, last'.request.parentId)
      /\ \E n \in 1..Len(last'.result) :
           \E c \in 1..Len(inst[StoreGet(store, last'.request.parentId)].data[ArrayName(ctype)].v) :
             IdOf(inst[StoreGet(store, last'.request.parentId)].data[ArrayName(ctype)].v[c].v)
               = IdOf(last'.result[n].v)) =>
       /\ Calls(last'.trace, "prepareData", last'.request.parentId) = 1
       /\ Calls(last'.trace, "render", last'.request.parentId) = 1]_vars

\* C11: an embedded update of a child of a Scene has been handled through to
\* the batch hook
C11_SceneBatchHandled ==
  /\ ctype = "Scene"
  /\ last.step \in {"response", "notify"}
  /\ last.event = "modifyEmbeddedDocument"
  /\ last.action = "update"
  /\ last.outcome \in {"resolved", "handled"}
  /\ Calls(last.trace, "_onModifyEmbeddedEntity", last.request.parentId) = 1
  /\ Calls(last.trace, "_onUpdateEmbeddedEntity", "i1") = 1

\* the positions of a log of hook calls at which the call is ev
Positions(trace, ev) == {n \in 1..Len(trace) : trace[n] = ev}

\* C12: for every entity class, each update record the update handler applies
\* to an entity of the collection makes prepareData of that entity run and
\* the render of the entity and of every application attached to it be
\* called, each before the render of the collection
C12_UpdatePreparesAndRenders ==
  [][HandledStep(last', "update") /\ last'.request.type = ctype =>
       \A n \in 1..Len(last'.result) :
         ("_id" \in DOMAIN last'.result[n].v
            /\ Calls(last'.trace, "_onUpdate", IdOf(last'.result[n].v)) >= 1) =>
           \A ev \in {Ev("prepareData", IdOf(last'.result[n].v)),
                       Ev("render", IdOf(last'.result[n].v))}
                      \cup {Ev("app.render", inst[StoreGet(store, IdOf(last'.result[n].v))].apps[k]) :
                              k \in 1..Len(inst[StoreGet(store, IdOf(last'.result[n].v))].apps)} :
             \E p \in Positions(last'.trace, ev) :
               \A q \in Positions(last'.trace, Ev("collection.render", "")) : p < q]_vars

\* C12: an update batch on two scenes with applications attached was handled
C12_SceneBatchRendered ==
  /\ ctype = "Scene"
  /\ HandledStep(last, "update")
  /\ Len(last.result) = 2
  /\ Calls(last.trace, "app.render", "sheet1") = 1
  /\ Calls(last.trace, "app.render", "hud2") = 1
  /\ Calls(last.trace, "collection.render", "") = 1

\* C13: for every entity class, when a delete response or notification has
\* been handled, every application attached to an entity the handler removed
\* from the collection has been closed by the handler
C13_DeleteClosesApps ==
  [][HandledStep(last', "delete") /\ last'.request.type = ctype =>
       \A x \in Ids :
         (StoreHas(store, x) /\ ~StoreHas(store', x)) =>
           \A k \in 1..Len(inst[StoreGet(store, x)].apps) :
             Calls(last'.trace, "app.close", inst[StoreGet(store, x)].apps[k]) >= 1]_vars

\* C13: a delete batch removed two actors with applications attached, and
\* each application was closed
C13_ActorAppsClosed ==
  /\ ctype = "Actor"
  /\ HandledStep(last, "delete")
  /\ Len(last.result) = 2
  /\ store = << >>
  /\ Calls(last.trace, "app.close", "sheet1") = 1
  /\ Calls(last.trace, "app.close", "sheet2") = 1
  /\ Calls(last.trace, "app.close", "hud2") = 1

Original(w, x) ==
  \E i \in 1..Len(w.store) : w.inst[w.store[i].ref].apps = Sheets[x]

Refused(w, d) == ~Truthy(Get(d.v, "_id")) \/ ~StoreHas(w.store, IdOf(d.v))

\* C16: Entity.update on a batch with an element that has no _id or names an
\* id the collection does not hold, and Entity.delete on a batch with an id
\* that is missing or not in the collection, fail before a request is emitted
\* and leave the collection as it was, whatever the other elements are
C16_InvalidBatchRejected ==
  [][/\ \A d \in MixedUpdates :
          (/\ CallStep(update(World, ctype, d, Options(FALSE, FALSE, TRUE)),
                       "modifyDocument", "update")
           /\ \E n \in 1..Len(d) : Refused(World, d[n])) =>
            /\ last'.outcome = "rejected"
            /\ last'.emitted = 0
            /\ pending' = pending
            /\ World' = World
     /\ \A d \in MixedDeletes :
          (/\ CallStep(delete(World, ctype, d, Options(FALSE, FALSE, FALSE)),
                       "modifyDocument", "delete")
           /\ \E n \in 1..Len(d) : ~Holds(store, d[n])) =>
            /\ last'.outcome = "rejected"
            /\ last'.emitted = 0
            /\ pending' = pending
            /\ World' = World]_vars

\* C16: a call on a batch was refused while the entity a1, which the batch
\* also names, is in the collection
C16_MixedBatchRefused ==
  /\ last.step = "call"
  /\ last.action \in {"update", "delete"}
  /\ last.outcome = "rejected"
  /\ last.emitted = 0
  /\ StoreHas(store, "a1")
  /\ pending = << >>

\* C17: updateEmbeddedEntity on a batch with an element that has no _id, and
\* deleteEmbeddedEntity on a batch with a missing id, fail before a request
\* is emitted
C17_EmbeddedBatchRejected ==
  [][/\ \A d \in MixedChildUpdates : \A diff \in BOOLEAN :
          (/\ StoreHas(store, "a1")
           /\ CallStep(updateEmbeddedEntity(World, ctype, StoreGet(store, "a1"),
                                            EmbeddedName(ctype), d,
                                            Options(FALSE, FALSE, diff)),
                       "modifyEmbeddedDocument", "update")
           /\ \E n \in 1..Len(d) : ~Truthy(Get(d[n].v, "_id"))) =>
            /\ last'.outcome = "rejected"
            /\ last'.emitted = 0
     /\ \A d \in MixedChildDeletes :
          (/\ StoreHas(store, "a1")
           /\ CallStep(deleteEmbeddedEntity(World, ctype, StoreGet(store, "a1"),
                                            EmbeddedName(ctype), d,
                                            Options(FALSE, FALSE, FALSE)),
                       "modifyEmbeddedDocument", "delete")
           /\ \E n \in 1..Len(d) : d[n] = Undefined) =>
            /\ last'.outcome = "rejected"
            /\ last'.emitted = 0]_vars

\* C17: an embedded update on a batch with an element without _id was
\* refused while the child i1 is among the children of a1
C17_EmbeddedUpdateRefused ==
  /\ last.step = "call"
  /\ last.event = "modifyEmbeddedDocument"
  /\ last.action = "update"
  /\ last.outcome = "rejected"
  /\ last.emitted = 0
  /\ pending = << >>
  /\ StoreHas(store, "a1")
  /\ \E c \in 1..Len(inst[StoreGet(store, "a1")].data[ArrayName(ctype)].v) :
       IdOf(inst[StoreGet(store, "a1")].data[ArrayName(ctype)].v[c].v) = "i1"

\* C18: when the response to Entity.create has been handled, the call
\* resolves to one Entity if one record was requested, as an object or in an
\* array of one element, and to an array of Entities otherwise
C18_CreateReturnsOneOrArray ==
  [][(/\ last'.step = "response"
      /\ HandledStep(last', "create")
      /\ last'.outcome = "resolved") =>
       IF Len(last'.request.data) = 1
       THEN last'.value = Entity(last'.result[1])
       ELSE last'.value = Arr([n \in 1..Len(last'.result) |-> Entity(last'.result[n])])]_vars

\* C18: a create of one record resolved to the one Entity, and a create of
\* two records to the array of the two
C18_CreateResolved ==
  /\ last.step = "response"
  /\ HandledStep(last, "create")
  /\ last.outcome = "resolved"
  /\ \/ Len(last.request.data) = 1 /\ last.value.t = "Entity"
     \/ Len(last.request.data) = 2 /\ last.value.t = "Array" /\ Len(last.value.v) = 2

\* C19: handling a create response or notification of this class with n
\* records and temporary unset adds n entries to the raw source array, leaves
\* under the id of each record an instance that was not there before and is
\* what the constructor makes of the record, and calls _onCreate once for each
\* record; with temporary set the store and the raw source array are
\* unchanged and no _onCreate runs
C19_CreateInsertsUnlessTemporary ==
  [][(HandledStep(last', "create") /\ last'.request.type = ctype) =>
       IF last'.request.options.temporary
       THEN /\ store' = store
            /\ source' = source
            /\ \A n \in 1..Len(last'.trace) : last'.trace[n].h # "_onCreate"
       ELSE /\ Len(source') = Len(source) + Len(last'.result)
            /\ \A n \in 1..Len(last'.result) :
                 /\ StoreHas(store', IdOf(last'.result[n].v))
                 /\ StoreGet(store', IdOf(last'.result[n].v)) \notin DOMAIN inst
                 /\ inst'[StoreGet(store', IdOf(last'.result[n].v))]
                      = Construct(last'.result[n].v, ctype)
                 /\ Calls(last'.trace, "_onCreate", IdOf(last'.result[n].v)) = 1]_vars

\* C19: a create response with two records and temporary unset was handled
\* on an empty collection, which now holds the two
C19_TwoCreated ==
  /\ last.step = "response"
  /\ HandledStep(last, "create")
  /\ ~last.request.options.temporary
  /\ Len(last.result) = 2
  /\ Len(store) = 2
  /\ Calls(last.trace, "_onCreate", "a1") = 1
  /\ Calls(last.trace, "_onCreate", "a2") = 1

\* the log of hook calls ends with the one render of the collection
RenderedOnceAtEnd(trace) ==
  /\ Calls(trace, "collection.render", "") = 1
  /\ trace[Len(trace)] = Ev("collection.render", "")

Malformed(data, ty) ==
  IF ty = "Actor"
  THEN ActorPrepareEmbedded([data |-> prepareData(data, ty), items |-> ItemsNull,
                             view |-> Undefined, apps |-> << >>]).threw
  ELSE ty = "Combat"

\* C21: the collection built from a snapshot of N records with distinct
\* ids, one of which makes the set-up of its instance throw, holds N
\* entities, one under the id of each record and made of that record, and
\* the construction does not throw
C21_BootKeepsEveryRecord ==
  [][(/\ last'.step = "boot"
      /\ \E n \in 1..Len(last'.result) : Malformed(last'.result[n].v, ctype)) =>
       /\ last'.outcome = "resolved"
       /\ Len(store') = Len(last'.result)
       /\ Len(source') = Len(last'.result)
       /\ \A n \in 1..Len(last'.result) :
            /\ StoreHas(store', IdOf(last'.result[n].v))
            /\ IdOf(inst'[StoreGet(store', IdOf(last'.result[n].v))].data)
                 = IdOf(last'.result[n].v)]_vars

\* C21: a collection of actors was built from two records, the first of
\* which has no items array, and holds both
C21_MalformedFirst ==
  /\ ctype = "Actor"
  /\ last.step = "boot"
  /\ Len(last.result) = 2
  /\ "items" \notin DOMAIN last.result[1].v
  /\ "items" \in DOMAIN last.result[2].v
  /\ StoreHas(store, "a1") /\ StoreHas(store, "a2")

\* C22: hasPerm(user, "OWNER") is true for a user with the role of a game
\* master or assistant on every entity, whatever its permission map holds,
\* and when it has no permission map
C22_GameMasterOwns ==
  [][(/\ last'.step = "hasPerm"
      /\ isGM(last'.result[1].user)
      /\ last'.result[1].level = "OWNER"
      /\ ~last'.result[1].exact) =>
       last'.value = Bool(TRUE)]_vars

\* C22: a game master asked for OWNER on an entity whose permission map
\* gives them LIMITED and everyone else NONE
C22_GameMasterAsked ==
  /\ last.step = "hasPerm"
  /\ last.result[1].user.id = "gm"
  /\ last.result[1].level = "OWNER"
  /\ ~last.result[1].exact
  /\ Get(inst[StoreGet(store, "a1")].data, "permission")
       = Obj([default |-> Num(0), gm |-> Num(1)])
  /\ last.value = Bool(TRUE)

\* the permission map of the entity a1
MapOfA1 == Get(inst[StoreGet(store, "a1")].data, "permission")

\* the user's own entry of the map m when it is an integer, else the default
OwnOrDefault(m, id) ==
  IF id \in DOMAIN m /\ m[id].t = "number" THEN m[id]
  ELSE IF "default" \in DOMAIN m THEN m["default"] ELSE Undefined

\* C23: for a user who is no game master and an entity with a permission
\* map, hasPerm(user, L) is true exactly when the user's level is at least L
\* and hasPerm(user, L, true) exactly when it equals L, the level being the
\* user's own entry when it is an integer (0 included) and the default else
C23_LevelDecides ==
  [][(/\ last'.step = "hasPerm"
      /\ ~isGM(last'.result[1].user)
      /\ MapOfA1.t = "Object") =>
       last'.value =
         Bool(/\ OwnOrDefault(MapOfA1.v, last'.result[1].user.id).t = "number"
              /\ IF last'.result[1].exact
                 THEN OwnOrDefault(MapOfA1.v, last'.result[1].user.id).v
                        = ENTITY_PERMISSIONS[last'.result[1].level]
                 ELSE OwnOrDefault(MapOfA1.v, last'.result[1].user.id).v
                        >= ENTITY_PERMISSIONS[last'.result[1].level])]_vars

\* C23: the player u1, whose own entry is NONE under a default of OBSERVER,
\* was refused LIMITED
C23_OwnNoneRefused ==
  /\ last.step = "hasPerm"
  /\ last.result[1].user.id = "u1"
  /\ last.result[1].level = "LIMITED"
  /\ ~last.result[1].exact
  /\ MapOfA1 = Obj([default |-> Num(2), u1 |-> Num(0)])
  /\ last.value = Bool(FALSE)

\* C24: the permission accessor returns OWNER for a game master and else the
\* user's own entry whenever the map has one, for every level from NONE (0)
\* to OWNER (3), and the default only when the map has no entry of the user
C24_AccessorReturnsOwnEntry ==
  [][(/\ last'.step = "permission"
      /\ MapOfA1.t = "Object"
      /\ Get(MapOfA1.v, last'.result[1].user.id).t \in {"number", "undefined"}) =>
       /\ last'.outcome = "resolved"
       /\ last'.value =
            IF isGM(last'.result[1].user) THEN Num(ENTITY_PERMISSIONS["OWNER"])
            ELSE IF last'.result[1].user.id \in DOMAIN MapOfA1.v
            THEN MapOfA1.v[last'.result[1].user.id]
            ELSE Get(MapOfA1.v, "default")]_vars

\* C24: the player u1 read the permission of an entity whose map gives
\* them OBSERVER under a default of NONE
C24_OwnObserverRead ==
  /\ last.step = "permission"
  /\ last.result[1].user.id = "u1"
  /\ MapOfA1 = Obj([default |-> Num(0), u1 |-> Num(2)])
  /\ last.value = Num(2)

\* C25: limited is false whenever the acting user is a game master, for the
\* entity and for its owned item, also when the level of the game master in
\* the permission map is LIMITED
C25_NeverLimitedForGM ==
  [][(last'.step = "limited" /\ isGM(last'.result[1].user)) =>
       last'.value = Bool(FALSE)]_vars

\* C25: a game master read the limited of the owned item of an actor whose
\* permission map gives them LIMITED
C25_GameMasterLimitedLevel ==
  /\ last.step = "limited"
  /\ last.result[1].user.id = "gm"
  /\ last.result[1].owned
  /\ MapOfA1.t = "Object"
  /\ Get(MapOfA1.v, "gm") = Num(ENTITY_PERMISSIONS["LIMITED"])
  /\ hasPerm(inst[StoreGet(store, "a1")].data, last.result[1].user, "LIMITED", TRUE)
  /\ last.value = Bool(FALSE)

\* C26: with the diff option, every element of the payload Entity.update
\* emits holds the _id of an entity of the collection and, besides it, at
\* least one field, and every such field holds a value that differs from
\* what the current data of that entity holds under it
C26_PayloadHoldsDifferences ==
  [][(/\ last'.step = "call"
      /\ last'.event = "modifyDocument"
      /\ last'.action = "update"
      /\ last'.emitted = 1
      /\ last'.request.options.diff) =>
       \A i \in 1..Len(last'.request.data) :
         /\ "_id" \in DOMAIN last'.request.data[i].v
         /\ StoreHas(store, IdOf(last'.request.data[i].v))
         /\ DOMAIN last'.request.data[i].v # {"_id"}
         /\ \A k \in DOMAIN last'.request.data[i].v \ {"_id"} :
              last'.request.data[i].v[k]
                # Get(inst[StoreGet(store, IdOf(last'.request.data[i].v))].data, k)]_vars

\* C26: an update call with the diff option emitted one element, the
\* changed foo of a1 with its _id, while a1 held foo 1 and a2 was held
C26_OneDifferenceEmitted ==
  /\ last.step = "call"
  /\ last.action = "update"
  /\ last.emitted = 1
  /\ StoreHas(store, "a2")
  /\ inst[StoreGet(store, "a1")].data["name"] = Str("Thing")
  /\ inst[StoreGet(store, "a1")].data["foo"] = Num(1)
  /\ last.request.data = << Obj(("_id" :> Str("a1")) @@ ("foo" :> Num(2))) >>
  /\ pending[Len(pending)].request = last.request

\* C27: once an embedded delete response or notification listing the ids D
\* for a parent of the collection is handled, the handler has not thrown and
\* the raw embedded array of the parent holds exactly the children it held
\* before whose ids are not in D, in the order they had
C27_EmbeddedDeleteRemoves ==
  [][(/\ last'.step \in {"response", "notify"}
      /\ last'.event = "modifyEmbeddedDocument"
      /\ last'.action = "delete"
      /\ last'.handler
      /\ last'.request.type = EmbeddedName(ctype)
      /\ StoreHas(store, last'.request.parentId)) =>
       /\ last'.outcome \in {"resolved", "handled"}
       /\ StoreHas(store', last'.request.parentId)
       /\ inst'[StoreGet(store', last'.request.parentId)].data[ArrayName(ctype)].v
            = SelectSeq(inst[StoreGet(store, last'.request.parentId)].data[ArrayName(ctype)].v,
                        LAMBDA c : \A n \in 1..Len(last'.result) :
                                     last'.result[n] # Get(c.v, "_id"))]_vars

\* C27: the answer to an embedded delete of the child i1 has been delivered
\* to the handler while the parent a1 held i1
C27_EmbeddedDeleteDelivered ==
  /\ last.step = "response"
  /\ last.event = "modifyEmbeddedDocument"
  /\ last.action = "delete"
  /\ last.handler
  /\ last.result = << Str("i1") >>
  /\ StoreHas(store, "a1")
  /\ \E c \in 1..Len(inst[StoreGet(store, "a1")].data[ArrayName(ctype)].v) :
       IdOf(inst[StoreGet(store, "a1")].data[ArrayName(ctype)].v[c].v) = "i1"

\* C28: a dispatch emits exactly one request and returns a pending promise;
\* the promise settles at most once, and only when a response is delivered:
\* resolved with the response when the response carries no error, rejected
\* with an Error of the message of the error when it carries one; without a
\* response it stays pending, and a delivery emits nothing
C28_SettlesAtMostOnce ==
  [][/\ last'.step = "dispatch" =>
          /\ last'.emitted = 1
          /\ Len(pending') = Len(pending) + 1
          /\ pending'[Len(pending')].settled = "pending"
     /\ last'.step = "ack" => last'.emitted = 0 /\ Len(pending') = Len(pending)
     /\ \A i \in 1..Len(pending) :
          /\ pending'[i].settles <= 1
          /\ pending[i].settled # "pending" =>
               /\ pending'[i].settled = pending[i].settled
               /\ pending'[i].value = pending[i].value
          /\ last'.step # "ack" => pending'[i] = pending[i]
          /\ (pending[i].settled = "pending" /\ pending'[i].settled # "pending") =>
               IF last'.result[1].error = Undefined
               THEN /\ pending'[i].settled = "resolved"
                    /\ pending'[i].value = last'.result[1]
               ELSE /\ pending'[i].settled = "rejected"
                    /\ pending'[i].value
                         = Obj([message |-> last'.result[1].error.v["message"]])]_vars

\* C28: an acknowledgement carrying an error was delivered a second time to
\* a request whose promise had resolved
C28_SecondAcknowledgement ==
  /\ last.step = "ack"
  /\ last.result[1].error # Undefined
  /\ Len(pending) = 1
  /\ pending[1].acks = 2
  /\ pending[1].settled = "resolved"
  /\ pending[1].settles = 1

RECURSIVE HoldsAll(_, _)
\* every key of b is a key of res with the value b gives it, key by key
\* where b holds an object
HoldsAll(res, b) ==
  \A k \in DOMAIN b :
    /\ k \in DOMAIN res
    /\ IF b[k].t = "Object"
       THEN res[k].t = "Object" /\ HoldsAll(res[k].v, b[k].v)
       ELSE res[k] = b[k]

RECURSIVE KeepsRest(_, _, _)
\* every key of a that is no key of b has in res the value a gives it, also
\* inside the objects both hold under the same key
KeepsRest(res, a, b) ==
  \A k \in DOMAIN a :
    IF k \notin DOMAIN b THEN k \in DOMAIN res /\ res[k] = a[k]
    ELSE (a[k].t = "Object" /\ b[k].t = "Object") =>
           /\ k \in DOMAIN res
           /\ res[k].t = "Object"
           /\ KeepsRest(res[k].v, a[k].v, b[k].v)

\* no key of the object is dotted or starts with -=
PlainKeys(f) == \A k \in DOMAIN f : ~HasDot(k) /\ ~StartsWithDel(k)

\* mergeObject has been called with overwrite, insertKeys and insertValues
MergedOverwriting(l) ==
  /\ l.step = "mergeObject"
  /\ l.request.overwrite /\ l.request.insertKeys /\ l.request.insertValues

\* C29 as stated: for all plain objects A and B, the result of
\* mergeObject(A, B, {overwrite: true, insertKeys: true, insertValues: true})
\* holds under every key of B the value of B, recursively for nested
\* objects, and under every key of A that B lacks the value of A
C29_MergeTakesOther ==
  MergedOverwriting(last) =>
    /\ last.outcome = "resolved"
    /\ HoldsAll(last.value.v, last.result[2].v)
    /\ KeepsRest(last.value.v, last.result[1].v, last.result[2].v)

\* C29 amended: the same for all plain objects A and B none of whose keys
\* is dotted or starts with -=
C29_MergeTakesOtherPlainKeys ==
  (/\ MergedOverwriting(last)
   /\ PlainKeys(last.result[1].v)
   /\ PlainKeys(last.result[2].v)) =>
    /\ last.outcome = "resolved"
    /\ HoldsAll(last.value.v, last.result[2].v)
    /\ KeepsRest(last.value.v, last.result[1].v, last.result[2].v)

\* C29: {foo: 1, token: {name: 1, foo: 2}} has been merged with
\* {foo: 2, token: {name: 2}}
C29_NestedMerged ==
  /\ MergedOverwriting(last)
  /\ last.result[1] = Obj(("foo" :> Num(1))
                            @@ ("token" :> Obj(("name" :> Num(1)) @@ ("foo" :> Num(2)))))
  /\ last.result[2] = Obj(("foo" :> Num(2)) @@ ("token" :> Obj("name" :> Num(2))))
  /\ last.value = Obj(("foo" :> Num(2))
                        @@ ("token" :> Obj(("name" :> Num(2)) @@ ("foo" :> Num(2)))))

RECURSIVE KeepsValues(_, _)
\* every key path of a that holds a value other than undefined and other
\* than an object holds the same value in res
KeepsValues(res, a) ==
  \A k \in DOMAIN a :
    IF a[k].t = "Object"
    THEN /\ k \in DOMAIN res
         /\ res[k].t = "Object"
         /\ KeepsValues(res[k].v, a[k].v)
    ELSE a[k].t # "undefined" => (k \in DOMAIN res /\ res[k] = a[k])

\* the object a read by key paths: a dotted key names the path of its segments
ByPaths(a) == IF \E k \in DOMAIN a : HasDot(k) THEN expandObject(a) ELSE a

\* mergeObject has been called with overwrite: false
MergedKeeping(l) == l.step = "mergeObject" /\ ~l.request.overwrite

RECURSIVE PathPresent(_, _)
\* the path leads through own keys of nested objects to a key of x
PathPresent(x, path) ==
  \/ path = << >>
  \/ /\ x.t = "Object"
     /\ Head(path) \in DOMAIN x.v
     /\ PathPresent(x.v[Head(path)], Tail(path))

\* C31: hasProperty(obj, path) returns false and does not throw for every
\* dot path absent from obj, a path through a key that holds a number, a
\* string or a boolean included
C31_AbsentPathIsFalse ==
  (/\ last.step = "hasProperty"
   /\ last.request # ""
   /\ ~PathPresent(last.result[1], Split(last.request))) =>
    /\ last.outcome = "resolved"
    /\ last.value = Bool(FALSE)

\* C31: hasProperty was asked for token.foo on an object whose token has a
\* name and no foo, and answered false
C31_MissingLeafAsked ==
  /\ last.step = "hasProperty"
  /\ last.request = "token.foo"
  /\ Get(last.result[1].v, "token") = Obj("name" :> Num(1))
  /\ last.outcome = "resolved"
  /\ last.value = Bool(FALSE)

\* C32: diffObject(X, X) returns the empty object for every plain data X,
\* also when X holds arrays, nested objects or empty objects
C32_SelfDiffIsEmpty ==
  last.step = "diffObject" =>
    /\ last.outcome = "resolved"
    /\ last.value = Obj(EmptyObj)

\* C32: diffObject was called on an object with a leaf and a nested object
\* against itself, and returned the empty object
C32_NestedSelfDiffed ==
  /\ last.step = "diffObject"
  /\ last.result[1] = Obj(("foo" :> Num(1))
                            @@ ("token" :> Obj(("name" :> Num(1)) @@ ("foo" :> Num(2)))))
  /\ last.outcome = "resolved"
  /\ last.value = Obj(EmptyObj)

\* C33: mergeObject called with inplace returns the very object passed as
\* original, and that object holds the merged content, for every original,
\* one whose keys contain dots included
C33_InplaceReturnsOriginal ==
  (last.step = "mergeObject" /\ last.request.inplace) =>
    /\ last.outcome = "resolved"
    /\ last.result[4] = Bool(TRUE)
    /\ last.result[3] = last.value

\* C33: {foo: 1} has been merged in place with {foo: 2, token: {name: 2}}:
\* the object passed was returned and holds the merged content
C33_MergedInPlace ==
  /\ last.step = "mergeObject"
  /\ last.request = MergeDefaults
  /\ last.result[1] = Obj("foo" :> Num(1))
  /\ last.result[2] = Obj(("foo" :> Num(2)) @@ ("token" :> Obj("name" :> Num(2))))
  /\ last.result[4] = Bool(TRUE)
  /\ last.result[3] = last.result[2]
  /\ last.value = last.result[3]

\* no object of res below its top level has a key the object of a under the
\* same top-level key lacked
NoNewBelow(res, a) ==
  \A k \in DOMAIN res :
    res[k].t = "Object" =>
      DOMAIN res[k].v \subseteq (IF k \in DOMAIN a /\ a[k].t = "Object"
                                 THEN DOMAIN a[k].v ELSE {})

\* C34: the result of mergeObject with insertKeys: false has no top-level
\* key that original lacked, and the result with insertValues: false has no
\* key below the top level that original lacked, whatever the incoming
\* value is: a scalar or a nested object
C34_NothingInserted ==
  last.step = "mergeObject" =>
    /\ ~last.request.insertKeys =>
         DOMAIN last.value.v \subseteq DOMAIN ByPaths(last.result[1].v)
    /\ ~last.request.insertValues =>
         NoNewBelow(last.value.v, ByPaths(last.result[1].v))

\* C34: {token: {name: 1}} has been merged with {foo: 2, token: {name: 2}}
\* under insertKeys: false: name was overwritten and foo was not inserted
C34_ScalarNotInserted ==
  /\ last.step = "mergeObject"
  /\ ~last.request.insertKeys
  /\ last.result[1] = Obj("token" :> Obj("name" :> Num(1)))
  /\ last.result[2] = Obj(("foo" :> Num(2)) @@ ("token" :> Obj("name" :> Num(2))))
  /\ last.value = Obj("token" :> Obj("name" :> Num(2)))

\* C35: every notification the server pushes after it produced the world
\* snapshot finds a listener: none is delivered between the receipt of the
\* snapshot and the registration of the listeners and lost, and none is
\* handled before the collections exist
C35_NoNotificationLost ==
  /\ pending.dropped = 0
  /\ pending.handled > 0 => (pending.listening /\ store # << >>)

\* C35: over the websocket two notifications pushed after the snapshot have
\* been handled on the collections set up from it
C35_PushedAfterSnapshotHandled ==
  /\ pending.transport = "websocket"
  /\ pending.listening
  /\ pending.handled = 2
  /\ pending.dropped = 0
  /\ StoreHas(store, "a1")
  /\ inst[StoreGet(store, "a1")].data["foo"] = Num(2)

\* C36: for every modifyDocument notification of a known entity type and
\* every modifyEmbeddedDocument notification, what the handler throws does
\* not leave the listener, and the stateUpdate callback of the session has
\* run exactly once, whether the handler returned or threw
C36_ListenerSwallows ==
  (/\ last.step = "notify"
   /\ \/ last.event = "modifyEmbeddedDocument"
      \/ last.event = "modifyDocument" /\ last.request.type \in ENTITY_TYPES) =>
    /\ last.outcome \in {"handled", "swallowed"}
    /\ last.stateUpdate = 1

\* C36: the handler of an embedded update for a parent the collection does
\* not hold threw inside the listener
C36_HandlerThrew ==
  /\ last.step = "notify"
  /\ last.event = "modifyEmbeddedDocument"
  /\ last.action = "update"
  /\ ~StoreHas(store, last.request.parentId)
  /\ last.outcome = "swallowed"
  /\ last.stateUpdate = 1

\* the ids of the Scenes of the collection whose data.active is true, and
\* of those whose _view is set
ActiveScenes == {store[i].id : i \in {j \in 1..Len(store) :
                   Get(inst[store[j].ref].data, "active") = Bool(TRUE)}}
ViewedScenes == {store[i].id : i \in {j \in 1..Len(store) :
                   Truthy(inst[store[j].ref].view)}}

\* the ids S of the records of a result that carry active: true and are
\* not followed, in the same result, by another activation or by a change
\* of the active flag of S
Activated(result) ==
  {IdOf(result[i].v) : i \in {n \in 1..Len(result) :
     /\ Get(result[n].v, "active") = Bool(TRUE)
     /\ \A j \in (n + 1)..Len(result) :
          /\ ~Truthy(Get(result[j].v, "active"))
          /\ IdOf(result[j].v) = IdOf(result[n].v) => "active" \notin DOMAIN result[j].v}}

\* the last step handled a create or update result to its end
FullyHandled ==
  /\ last.event = "modifyDocument"
  /\ last.action \in {"create", "update"}
  /\ \/ last.step = "response" /\ last.outcome = "resolved"
     \/ last.step = "notify" /\ last.outcome = "handled"

\* C37 as stated: at most one Scene of the collection is active, and once a
\* create or update result with a record active: true for Scene S is handled,
\* S is the only active Scene and the only viewed Scene.
C37_OneActiveScene ==
  /\ Cardinality(ActiveScenes) <= 1
  /\ FullyHandled =>
       \A s \in Activated(last.result) : ActiveScenes = {s} /\ ViewedScenes = {s}

\* C37, amended: at most one Scene of the collection is active, and once a
\* create or update result with a record active: true for Scene S is handled,
\* S is the only active Scene and the only viewed Scene, unless the result
\* answers a create with options.temporary, which leaves the collection as
\* it was.
C37_OneActiveSceneUnlessTemporary ==
  /\ Cardinality(ActiveScenes) <= 1
  /\ (FullyHandled /\ ~(last.action = "create" /\ last.request.options.temporary)) =>
       \A s \in Activated(last.result) : ActiveScenes = {s} /\ ViewedScenes = {s}

\* C37 witness: a handled update result activated Scene a2 while Scene a1
\* was the active one: a2 is now the only active and the only viewed Scene,
\* and a1 is still in the collection.
C37_ActivationMoved ==
  /\ FullyHandled
  /\ last.action = "update"
  /\ Activated(last.result) = {"a2"}
  /\ \E i \in 1..Len(last.result) :
       IdOf(last.result[i].v) = "a1" /\ Get(last.result[i].v, "active") = Bool(TRUE)
  /\ ActiveScenes = {"a2"}
  /\ ViewedScenes = {"a2"}
  /\ StoreHas(store, "a1")

\* the data of an entity without the suffix the cache busting gave its thumb
Unbusted(data) ==
  IF Get(data, "thumb").t = "string" /\ data["thumb"].v \in Stamps
  THEN Put(data, "thumb", Str(CHOOSE b \in Thumbs :
                                \E m \in 0..MaxClock : data["thumb"].v = Stamp(b, m)))
  ELSE data

\* the step handles, as a notification, the result whose response the step
\* before handled
HandledAgain == last.step = "response" /\ last'.step = "notify"

\* C38 as stated: handling an update result a second time, as the
\* notification of the update whose response was handled, leaves the data of
\* every entity and the collection as the first handling left them.
C38_TwiceIsOnce ==
  [][HandledAgain =>
       /\ store' = store
       /\ source' = source
       /\ DOMAIN inst' = DOMAIN inst
       /\ \A r \in DOMAIN inst : inst'[r].data = inst[r].data]_vars

\* C38, amended: handling an update result a second time, as the
\* notification of the update whose response was handled, leaves the data of
\* every entity and the collection as the first handling left them, but for
\* the suffix the cache busting of Scene#_onUpdate gives the thumb of a Scene
\* at each handling of a result that has a thumb key, which holds the time of
\* the latest handling.
C38_TwiceIsOnceButThumb ==
  [][HandledAgain =>
       /\ store' = store
       /\ source' = source
       /\ DOMAIN inst' = DOMAIN inst
       /\ \A r \in DOMAIN inst :
            /\ Unbusted(inst'[r].data) = Unbusted(inst[r].data)
            /\ inst'[r].data # inst[r].data =>
                 /\ ctype = "Scene"
                 /\ \E i \in 1..Len(last.result) :
                      /\ IdOf(last.result[i].v) = IdOf(inst[r].data)
                      /\ "thumb" \in DOMAIN last.result[i].v
                 /\ inst'[r].data["thumb"] = Str(Busted(inst[r].data["thumb"].v, last'.now))]_vars

\* C38 witness: a result that changes foo of a1 from 1 to 2 was handled to
\* its end twice, as a response and then as a notification, and a1 holds 2.
C38_HandledTwice ==
  /\ last.step = "notify"
  /\ last.outcome = "handled"
  /\ \E i \in 1..Len(last.result) :
       last.result[i] = Obj([_id |-> Str("a1"), foo |-> Num(2)])
  /\ Get(inst[StoreGet(store, "a1")].data, "foo") = Num(2)

\* the step handles an embedded update, as a response or as a notification
EmbeddedUpdateHandled ==
  /\ last'.step \in {"response", "notify"}
  /\ last'.event = "modifyEmbeddedDocument"
  /\ last'.action = "update"

\* the ids of the records of a result
ResultIds(result) == {IdOf(result[i].v) : i \in 1..Len(result)}

\* the array arr keeps its length, the ids of its children in their order,
\* and every child whose id is not among ids, when it becomes arr2
OnlyThose(arr, arr2, ids) ==
  /\ arr2.t = arr.t
  /\ arr.t = "Array" =>
       /\ Len(arr2.v) = Len(arr.v)
       /\ \A i \in 1..Len(arr.v) :
            /\ IdOf(arr2.v[i].v) = IdOf(arr.v[i].v)
            /\ IdOf(arr.v[i].v) \notin ids => arr2.v[i] = arr.v[i]

\* C39: the handling of an embedded update for parent P and embedded type T
\* changes only the children of P's T array whose ids are in the result:
\* the other children of the array, the other embedded arrays of P, the
\* number and the order of the children, the collection and every other
\* entity are as before; a result none of whose ids is the id of a child
\* changes no child and is handled to the end.
C39_OnlyMatchedChildren ==
  [][EmbeddedUpdateHandled =>
       /\ store' = store
       /\ source' = source
       /\ DOMAIN inst' = DOMAIN inst
       /\ \A r \in DOMAIN inst :
            IF r = StoreGet(store, last'.request.parentId)
                 /\ last'.request.type \in DOMAIN embeddedEntities(ctype)
            THEN /\ DOMAIN inst'[r].data = DOMAIN inst[r].data
                 /\ \A k \in DOMAIN inst[r].data :
                      IF k = embeddedEntities(ctype)[last'.request.type]
                      THEN OnlyThose(inst[r].data[k], inst'[r].data[k],
                                     ResultIds(last'.result))
                      ELSE inst'[r].data[k] = inst[r].data[k]
                 /\ (/\ last'.result # << >>
                     /\ inst[r].data[embeddedEntities(ctype)[last'.request.type]].t = "Array"
                     /\ \A i \in 1..Len(inst[r].data[embeddedEntities(ctype)[last'.request.type]].v) :
                          IdOf(inst[r].data[embeddedEntities(ctype)[last'.request.type]].v[i].v)
                            \notin ResultIds(last'.result))
                      => last'.outcome \in {"resolved", "handled"}
            ELSE inst'[r].data = inst[r].data]_vars

\* C39 witness: the pushed update of child i1 of parent a1 set its foo to
\* 2 and was handled to the end: a1 has its two children in their order,
\* the sibling i2 holds foo 1, and so does the child i1 of the other
\* parent a2.
C39_OneChildChanged ==
  /\ last.step = "notify"
  /\ last.event = "modifyEmbeddedDocument"
  /\ last.action = "update"
  /\ last.outcome = "handled"
  /\ last.request.parentId = "a1"
  /\ last.request.type = EmbeddedName(ctype)
  /\ last.result = << Obj([_id |-> Str("i1"), foo |-> Num(2)]) >>
  /\ LET arr == inst[StoreGet(store, "a1")].data[ArrayName(ctype)].v
         other == inst[StoreGet(store, "a2")].data[ArrayName(ctype)].v
     IN /\ Len(arr) = 2
        /\ IdOf(arr[1].v) = "i1" /\ Get(arr[1].v, "foo") = Num(2)
        /\ IdOf(arr[2].v) = "i2" /\ Get(arr[2].v, "foo") = Num(1)
        /\ Get(other[1].v, "foo") = Num(1)

====
